---- MODULE Spec2Model ----
(***************************************************************************)
(* A model of the theme-registry indexer (src/indexer):                    *)
(*   - GitHubClient._request_json, the retrying request loop               *)
(*     (specification SpecReq);                                            *)
(*   - StateStore.should_refresh as a function of the stored record        *)
(*     (specification SpecRefresh);                                        *)
(*   - run_once: discovery, the refresh loop over the discovered           *)
(*     identifiers, merge, sort and the write of the artifact, over        *)
(*     consecutive runs against one persistent store (specification Spec). *)
(* Each specification leaves the variables of the other layers at rest.    *)
(***************************************************************************)
EXTENDS Integers, Sequences, FiniteSets, TLC

VARIABLES
    \* ---- GitHubClient._request_json (one call at a time)
    retry_limit,     \* self.retry_limit
    attempt,         \* the loop variable of "for attempt in range(1, retry_limit + 1)"
    last_error,      \* the local last_error (NoneVal for None)
    rqpc,            \* "loop" | "returned" | "raised"
    rqresult,        \* the value returned, or the message of the GitHubRequestError
    httpAttempts,    \* history: urlopen calls made by this call of _request_json
    failSeen,        \* history: responses that were failures other than 404 / rate limit
    rlSeen,          \* history: rate-limit responses received
    lastFailure,     \* history: description of the most recent such failure
    request_delay,   \* self.request_delay_ms / 1000.0, in whole seconds
    client,          \* the GitHubClient instance that makes the call
    endpoint,        \* the method that makes the call: "search" | "repo" | "tree"
    next_request_time, \* self._next_request_time of each instance
    clock,           \* time.monotonic(), in whole seconds
    epresult,        \* what the method returns to its caller (NoneVal until it does)
    pace,            \* history: when the last two attempts of each instance started
    lastResp,        \* history: the latest answer received by this call
    sleptAfter,      \* history: seconds slept after that answer
    \* ---- StateStore.should_refresh, applied to drawn arguments
    sr_in,           \* the arguments of the call (NoCall before it)
    sr_out,          \* its result
    \* ---- discover_repositories, applied to drawn search pages
    dc_in,           \* the upstream pages and the Config of the call
    dc_out,          \* its result (NotCalled before it)
    \* ---- the functions of merge.py, parser.py and _sort_entries, applied to
    \* drawn arguments
    fn_in,           \* the arguments of the call
    fn_out,          \* its result (NotCalled before it)
    \* ---- run_once over consecutive runs
    config,          \* the Config of the runs
    overridesFile,   \* the content of overrides.json read by the latest run
    upstream,        \* what the hosting API answers: search listing and metadata
    store,           \* the repo_cache table, rows in rowid order
    now,             \* int(time.time())
    pc,              \* "idle" | "refresh"
    discovered,      \* the dict of discover_repositories, in insertion order
    idx,             \* position of the refresh loop in discovered (1-based)
    entries_by_repo, \* the dict entries_by_repo, in insertion order
    stats,           \* the counters of the run
    output,          \* the entries of the output file on disk (NoFile before any write)
    manifest,        \* the manifest file on disk (NoManifest before any write)
    runs,            \* history: runs started
    lastEnd,         \* history: how the latest run ended
    liveFetched,     \* history: identifiers fetch_repository was called for in this run
    outcome,         \* history: what the refresh loop did with each identifier in this run
    prev,            \* history: how the run before this one ended, what it did with each
                     \* identifier, and (last) the latest earlier outcome of each
    unchanged,       \* history: the upstream answers are those of the previous run
    hist,            \* history: the store when this run started, and its upserts
    runlog           \* history: opening and closing of the store, the files written
                     \* and how the run left, for the latest run

reqVars == <<retry_limit, attempt, last_error, rqpc, rqresult, httpAttempts,
             failSeen, rlSeen, lastFailure, request_delay, client, endpoint,
             next_request_time, clock, epresult, pace, lastResp, sleptAfter>>
srVars == <<sr_in, sr_out>>
dcVars == <<dc_in, dc_out>>
fnVars == <<fn_in, fn_out>>
runVars == <<config, overridesFile, upstream, store, now, pc, discovered, idx,
             entries_by_repo, stats, output, runs, lastEnd, liveFetched, outcome,
             prev, unchanged, hist, manifest, runlog>>
vars == <<reqVars, srVars, dcVars, fnVars, runVars>>

\* Python's None.
NoneVal == "<None>"

Max(a, b) == IF a >= b THEN a ELSE b

Min(a, b) == IF a <= b THEN a ELSE b

\* dict.get(key, default)
GetOr(d, k, default) == IF k \in DOMAIN d THEN d[k] ELSE default

\* The values json.loads and "return None" give a caller of _request_json,
\* tagged with what isinstance sees: None, a dict, a list.
JsonNone == [json |-> "none"]
JsonObject(fields) == [json |-> "object", value |-> fields]
JsonArray(items) == [json |-> "array", value |-> items]
JsonNumber(n) == [json |-> "number", value |-> n]

(***************************************************************************)
(* GitHubClient._request_json                                              *)
(***************************************************************************)

\* Largest retry_limit drawn (the configuration allows 1..10).
MaxRetry == 3

Url == "url"

\* The answers of one urlopen call: a 2xx response with its body, an
\* HTTPError with its status and rate-limit headers, or any other exception.
\* The documents a 2xx body can hold: a repository, a tree listing with an
\* item that is not an object, a search page with an item without a name and
\* one whose updated_at is not a string, and an array.
Documents ==
    {JsonObject([full_name |-> "acme/mytheme.nvim", stargazers_count |-> 5]),
     JsonObject([tree |-> JsonArray(<<JsonObject([type |-> "blob", path |-> "colors/nord.vim"]),
                                      JsonArray(<<>>)>>)]),
     JsonObject([items |-> JsonArray(<<JsonObject([full_name |-> "acme/mytheme.nvim",
                                                   updated_at |-> "2024-01-01T00:00:00Z"]),
                                       JsonObject([full_name |-> NoneVal,
                                                   updated_at |-> "2024-01-01T00:00:00Z"]),
                                       JsonObject([full_name |-> "zed/nord-vim",
                                                   updated_at |-> NoneVal])>>)]),
     JsonArray(<<>>)}

OkResponses ==
    {[kind |-> "ok", body |-> "json", doc |-> d] : d \in Documents}
    \cup {[kind |-> "ok", body |-> b, doc |-> JsonNone] : b \in {"", "garbage"}}

HttpErrors ==
    {[kind |-> "http", code |-> c, remaining |-> rem, reset |-> rst] :
        c \in {403, 404, 500, 502}, rem \in {"0", "7", NoneVal},
        rst \in {"1700000000", NoneVal}}

OtherErrors == {[kind |-> "exc", msg |-> "timed out"]}

Responses == OkResponses \cup HttpErrors \cup OtherErrors

\* A plausible slip: every 403 is taken for a rate-limit signal.
IsRateLimit_any403(resp) == resp.kind = "http" /\ resp.code = 403

\* error.code == 403 and remaining == "0" and reset_at
IsRateLimit(resp) ==
    /\ resp.kind = "http"
    /\ resp.code = 403
    /\ resp.remaining = "0"
    /\ resp.reset # NoneVal
    /\ resp.reset # ""

\* f"HTTP {error.code} for {url}"
HttpErrorText(code) == "HTTP " \o ToString(code) \o " for " \o Url

\* What the except clauses store in last_error for a failed attempt:
\* json.loads raising inside the try block lands in "except Exception".
FailureText(resp) ==
    CASE resp.kind = "http" -> HttpErrorText(resp.code)
      [] resp.kind = "exc" -> resp.msg
      [] OTHER -> "Expecting value: line 1 column 1 (char 0)"

\* A plausible slip: a 404 is handled like any other status.
Returns_no404(resp) == resp.kind = "ok" /\ resp.body # "garbage"

\* A response that ends the call with a return.
Returns(resp) ==
    \/ resp.kind = "ok" /\ resp.body # "garbage"
    \/ resp.kind = "http" /\ resp.code = 404

\* The value returned: None for an empty body or a 404, else the parsed body.
ReturnValue(resp) ==
    IF resp.kind = "ok" /\ resp.body = "json" THEN resp.doc ELSE JsonNone

\* raise GitHubRequestError(last_error or f"request failed: {url}")
RaiseText(err) == IF err = NoneVal \/ err = "" THEN "request failed: " \o Url ELSE err

\* A plausible slip: a loop that goes on until an answer returns.
LoopNext_unbounded(err) ==
    /\ attempt' = attempt + 1
    /\ rqpc' = "loop"
    /\ rqresult' = rqresult

\* The loop header taking the next value of range(1, retry_limit + 1), or the
\* loop ending and the raise after it. Both the "continue" of the rate-limit
\* branch and the end of the loop body come here.
LoopNext(err) ==
    IF attempt < retry_limit
    THEN /\ attempt' = attempt + 1
         /\ rqpc' = "loop"
         /\ rqresult' = rqresult
    ELSE /\ attempt' = attempt
         /\ rqpc' = "raised"
         /\ rqresult' = RaiseText(err)

\* Lines 109-130 of search_repositories: the page made of the payload the
\* request returned. An item counts when it is an object with a non-empty
\* string full_name; has_next compares the raw number of items with per_page.
SearchPage(payload, per_page) ==
    IF payload.json # "object" THEN [results |-> <<>>, has_next |-> FALSE]
    ELSE LET items == GetOr(payload.value, "items", JsonNone)
         IN  IF items.json # "array" THEN [results |-> <<>>, has_next |-> FALSE]
             ELSE LET named == SelectSeq(items.value,
                                   LAMBDA item :
                                       /\ item.json = "object"
                                       /\ GetOr(item.value, "full_name", NoneVal) \notin {NoneVal, ""})
                      Marker(item) == GetOr(item.value, "updated_at", "")
                  IN  [results |-> [i \in 1..Len(named) |->
                                       [repo |-> named[i].value.full_name,
                                        updated_at |-> IF Marker(named[i]) = NoneVal THEN ""
                                                       ELSE Marker(named[i])]],
                       has_next |-> Len(items.value) = per_page]

\* fetch_repository: the payload when it is a dict, else None.
fetch_repository(payload) == IF payload.json = "object" THEN payload ELSE JsonNone

\* fetch_repository_tree: the dict items of payload["tree"], else [].
fetch_repository_tree(payload) ==
    IF payload.json # "object" THEN <<>>
    ELSE LET tree == GetOr(payload.value, "tree", JsonNone)
         IN  IF tree.json # "array" THEN <<>>
             ELSE LET dicts == SelectSeq(tree.value, LAMBDA item : item.json = "object")
                  IN  [i \in 1..Len(dicts) |-> dicts[i].value]

Endpoints == {"search", "repo", "tree"}

\* What the method that made the call returns for the payload it got.
EndpointReturn(ep, payload) ==
    CASE ep = "search" -> SearchPage(payload, config.per_page)
      [] ep = "repo" -> fetch_repository(payload)
      [] OTHER -> fetch_repository_tree(payload)

\* The instances of GitHubClient (run_once makes one per run).
Clients == {1, 2}

\* request_delay_ms values drawn, in seconds.
Delays == {0, 2}

\* Largest value of the clock the behaviours are followed to.
MaxClock == 6

\* The time one request takes, in seconds.
Durations == {0, 1}

\* sleep_seconds of the rate-limit branch: max(1, reset - now + 1).
RateLimitSleeps == {1, 2}

\* A plausible slip: the pacing clock is not waited for.
_sleep_for_rate_nowait(t, next_time) == t

\* _sleep_for_rate: the time at which it returns when called at t.
_sleep_for_rate(t, next_time) == IF t < next_time THEN next_time ELSE t

\* _mark_request: the new self._next_request_time when called at t.
_mark_request(t, delay) == t + delay

\* Largest retry_limit of the calls followed through all their backoff
\* sleeps, and the largest value of the clock in them.
MaxBackoffRetry == 10
MaxBackoffClock == 300

\* The value of the clock up to which a call is followed.
Horizon == IF retry_limit > MaxRetry THEN MaxBackoffClock ELSE MaxClock

\* A plausible slip: the backoff without its cap.
Backoff_uncapped(n) == 2 ^ (n - 1)

\* backoff = min(60, 2 ** (attempt - 1))
Backoff(n) == Min(60, 2 ^ (n - 1))

\* Seconds slept after the answer of an attempt: none on a return, the
\* rate-limit sleep, or the backoff when another attempt follows.
PauseAfter(resp, nap) ==
    IF Returns(resp) THEN 0
    ELSE IF IsRateLimit(resp) THEN nap
    ELSE IF attempt < retry_limit THEN Backoff(attempt)
    ELSE 0

\* What is remembered of an answer: its kind and status.
ResponseClass(resp) ==
    IF resp.kind = "http" THEN IF IsRateLimit(resp) THEN "rate limit" ELSE ToString(resp.code)
    ELSE resp.kind

\* One iteration of the loop: _sleep_for_rate, urlopen, _mark_request and the
\* handling of the answer. took is the time the request takes, nap the
\* rate-limit sleep if there is one.
RequestAttempt(resp, took, nap) ==
    /\ rqpc = "loop"
    /\ LET begin == _sleep_for_rate(clock, next_request_time[client])
           done == begin + took
       IN  /\ done + PauseAfter(resp, nap) <= Horizon
           /\ clock' = done + PauseAfter(resp, nap)
           /\ next_request_time' =
                 [next_request_time EXCEPT ![client] = _mark_request(done, request_delay)]
           /\ pace' = [pace EXCEPT ![client] =
                          [last |-> begin, lastEp |-> endpoint]]
    /\ sleptAfter' = PauseAfter(resp, nap)
    /\ lastResp' = ResponseClass(resp)
    /\ httpAttempts' = httpAttempts + 1
    /\ IF Returns(resp)
       THEN /\ rqpc' = "returned"
            /\ rqresult' = ReturnValue(resp)
            /\ epresult' = EndpointReturn(endpoint, ReturnValue(resp))
            /\ UNCHANGED <<attempt, last_error, failSeen, rlSeen, lastFailure>>
       ELSE IF IsRateLimit(resp)
       THEN \* time.sleep(sleep_seconds); continue
            /\ rlSeen' = rlSeen + 1
            /\ LoopNext(last_error)
            /\ UNCHANGED <<last_error, failSeen, lastFailure, epresult>>
       ELSE \* last_error = ...; backoff sleep when attempt < retry_limit
            /\ last_error' = FailureText(resp)
            /\ failSeen' = failSeen + 1
            /\ lastFailure' = FailureText(resp)
            /\ LoopNext(FailureText(resp))
            /\ UNCHANGED <<rlSeen, epresult>>
    /\ UNCHANGED <<retry_limit, request_delay, client, endpoint, srVars, dcVars, fnVars, runVars>>

\* An attempt with any of the answers, each request taking no time.
Attempt == \E resp \in Responses : RequestAttempt(resp, 0, 1)

\* One answer of each class.
PacedResponses ==
    {[kind |-> "ok", body |-> "", doc |-> JsonNone],
     [kind |-> "http", code |-> 404, remaining |-> NoneVal, reset |-> NoneVal],
     [kind |-> "http", code |-> 403, remaining |-> "0", reset |-> "1700000000"],
     [kind |-> "http", code |-> 500, remaining |-> NoneVal, reset |-> NoneVal],
     [kind |-> "exc", msg |-> "timed out"]}

\* An attempt whose request takes time.
PacedAttempt ==
    \E resp \in PacedResponses, took \in Durations, nap \in RateLimitSleeps :
        RequestAttempt(resp, took, nap)

NoResponse == "none"

\* The next call of _request_json, by one of the methods of one of the
\* instances.
NewRequest(c, ep) ==
    /\ rqpc \in {"returned", "raised"}
    /\ rqpc' = "loop"
    /\ client' = c
    /\ endpoint' = ep
    /\ attempt' = 1
    /\ last_error' = NoneVal
    /\ rqresult' = NoneVal
    /\ epresult' = NoneVal
    /\ httpAttempts' = 0
    /\ failSeen' = 0
    /\ rlSeen' = 0
    /\ lastFailure' = NoneVal
    /\ lastResp' = NoResponse
    /\ sleptAfter' = 0
    /\ UNCHANGED <<retry_limit, request_delay, next_request_time, clock, pace,
                   srVars, dcVars, fnVars, runVars>>

(***************************************************************************)
(* Strings (Python str operations used by the parser and the runner)       *)
(***************************************************************************)

CharAt(s, i) == SubSeq(s, i, i)

UpperLetters == "ABCDEFGHIJKLMNOPQRSTUVWXYZ"
LowerLetters == "abcdefghijklmnopqrstuvwxyz"

LowerChar(c) ==
    IF \E i \in 1..Len(UpperLetters) : CharAt(UpperLetters, i) = c
    THEN CharAt(LowerLetters, CHOOSE i \in 1..Len(UpperLetters) : CharAt(UpperLetters, i) = c)
    ELSE c

\* str.lower()
RECURSIVE Lower(_)
Lower(s) == IF Len(s) = 0 THEN "" ELSE LowerChar(CharAt(s, 1)) \o Lower(SubSeq(s, 2, Len(s)))

\* str.endswith(suffix) / str.startswith(prefix)
EndsWith(s, suffix) ==
    Len(s) >= Len(suffix) /\ SubSeq(s, Len(s) - Len(suffix) + 1, Len(s)) = suffix

StartsWith(s, prefix) == Len(s) >= Len(prefix) /\ SubSeq(s, 1, Len(prefix)) = prefix

\* str.strip(chars): leading and trailing characters of the set are removed.
RECURSIVE LStrip(_, _)
LStrip(s, chars) ==
    IF Len(s) > 0 /\ CharAt(s, 1) \in chars THEN LStrip(SubSeq(s, 2, Len(s)), chars) ELSE s

RECURSIVE RStrip(_, _)
RStrip(s, chars) ==
    IF Len(s) > 0 /\ CharAt(s, Len(s)) \in chars
    THEN RStrip(SubSeq(s, 1, Len(s) - 1), chars)
    ELSE s

Strip(s, chars) == RStrip(LStrip(s, chars), chars)

Whitespace == {" "}

\* str.find(c): the first position of character c, 0 when absent.
Find(s, c) ==
    IF \E i \in 1..Len(s) : CharAt(s, i) = c
    THEN CHOOSE i \in 1..Len(s) : CharAt(s, i) = c /\ \A j \in 1..(i - 1) : CharAt(s, j) # c
    ELSE 0

Contains(s, c) == Find(s, c) # 0

\* str.replace(a, b) for single characters.
RECURSIVE Replace(_, _, _)
Replace(s, a, b) ==
    IF Len(s) = 0 THEN ""
    ELSE (IF CharAt(s, 1) = a THEN b ELSE CharAt(s, 1)) \o Replace(SubSeq(s, 2, Len(s)), a, b)

\* Python's order on str, for the characters the model uses (code points).
CodePoints == " -./0123456789ABCDEFGHIJKLMNOPQRSTUVWXYZ_abcdefghijklmnopqrstuvwxyz"

Ord(c) == CHOOSE i \in 1..Len(CodePoints) : CharAt(CodePoints, i) = c

RECURSIVE StrLess(_, _)
StrLess(a, b) ==
    IF Len(b) = 0 THEN FALSE
    ELSE IF Len(a) = 0 THEN TRUE
    ELSE IF CharAt(a, 1) = CharAt(b, 1)
         THEN StrLess(SubSeq(a, 2, Len(a)), SubSeq(b, 2, Len(b)))
         ELSE Ord(CharAt(a, 1)) < Ord(CharAt(b, 1))

(***************************************************************************)
(* parser.py                                                               *)
(***************************************************************************)

Suffixes == <<".nvim", ".vim", ".lua", "-nvim", "_nvim", "-vim", "_vim", "-colorscheme">>

\* The loop over the suffixes: each is removed once, in list order, from what
\* the earlier ones left.
RECURSIVE StripSuffixes(_, _)
StripSuffixes(candidate, i) ==
    IF i > Len(Suffixes) THEN candidate
    ELSE IF EndsWith(candidate, Suffixes[i]) /\ Len(candidate) > Len(Suffixes[i])
         THEN StripSuffixes(SubSeq(candidate, 1, Len(candidate) - Len(Suffixes[i])), i + 1)
         ELSE StripSuffixes(candidate, i + 1)

sanitize_repo_name(repo_name) ==
    Strip(StripSuffixes(Strip(Lower(repo_name), Whitespace), 1), {"-", "_"})

\* full_repo.partition("/")
Owner(full_repo) ==
    IF Contains(full_repo, "/") THEN SubSeq(full_repo, 1, Find(full_repo, "/") - 1)
    ELSE full_repo

RepoName(full_repo) ==
    IF Contains(full_repo, "/")
    THEN SubSeq(full_repo, Find(full_repo, "/") + 1, Len(full_repo))
    ELSE ""

GenericNames == {"", "nvim", "vim", "neovim", "theme", "colorscheme"}

normalize_theme_name(full_repo) ==
    LET cleaned_repo == sanitize_repo_name(RepoName(full_repo))
        fallback == sanitize_repo_name(Owner(full_repo))
    IN  IF cleaned_repo \in GenericNames /\ fallback # "" THEN fallback
        ELSE IF cleaned_repo # "" THEN cleaned_repo
        ELSE IF fallback # "" THEN fallback
        ELSE "theme"

\* sorted(set) of strings.
RECURSIVE SortStrings(_)
SortStrings(S) ==
    IF S = {} THEN <<>>
    ELSE LET m == CHOOSE x \in S : \A y \in S \ {x} : StrLess(x, y)
         IN  <<m>> \o SortStrings(S \ {m})

\* COLORS_FILE = ^colors/([^/]+)\.(vim|lua)$ : group 1 of a match, "" when the
\* path does not match. [^/]+ is greedy, so the extension is the last one.
ColorsMatch(path) ==
    LET ext == IF EndsWith(path, ".vim") THEN ".vim"
               ELSE IF EndsWith(path, ".lua") THEN ".lua" ELSE ""
        stem == IF ext = "" THEN ""
                ELSE SubSeq(path, Len("colors/") + 1, Len(path) - Len(ext))
    IN  IF StartsWith(path, "colors/") /\ ext # "" /\ Len(path) > Len("colors/") + Len(ext)
           /\ ~Contains(stem, "/")
        THEN stem
        ELSE ""

\* Tree items are [type, path] records.
extract_colorschemes(tree_items) ==
    SortStrings({Strip(ColorsMatch(tree_items[i].path), Whitespace) :
                    i \in {j \in 1..Len(tree_items) :
                              /\ tree_items[j].type = "blob"
                              /\ Strip(ColorsMatch(tree_items[j].path), Whitespace) # ""}})

\* A plausible slip: only the derived name itself is preferred.
pick_base_colorscheme_exact(theme_name, colors) ==
    LET hits == {i \in 1..Len(colors) : colors[i] = theme_name}
        plain == {i \in 1..Len(colors) :
                     ~Contains(colors[i], "-") /\ ~Contains(colors[i], "_")}
        First(I) == colors[CHOOSE i \in I : \A j \in I : i <= j]
    IN  IF Len(colors) = 0 THEN theme_name
        ELSE IF hits # {} THEN First(hits)
        ELSE IF plain # {} THEN First(plain)
        ELSE colors[1]

pick_base_colorscheme(theme_name, colors) ==
    LET preferred == {theme_name, Replace(theme_name, "-", "_"), Replace(theme_name, "_", "-")}
        hits == {i \in 1..Len(colors) : colors[i] \in preferred}
        plain == {i \in 1..Len(colors) :
                     ~Contains(colors[i], "-") /\ ~Contains(colors[i], "_")}
        First(I) == colors[CHOOSE i \in I : \A j \in I : i <= j]
    IN  IF Len(colors) = 0 THEN theme_name
        ELSE IF hits # {} THEN First(hits)
        ELSE IF plain # {} THEN First(plain)
        ELSE colors[1]

\* Elements of a sequence kept in order.
RECURSIVE SelectSeqBy(_, _)
SelectSeqBy(s, keep) ==
    IF Len(s) = 0 THEN <<>>
    ELSE (IF Head(s) \in keep THEN <<Head(s)>> ELSE <<>>) \o SelectSeqBy(Tail(s), keep)

\* build_entry raises ValueError for a payload without a usable full_name.
ValidFullName(repo_data) ==
    /\ repo_data.full_name # NoneVal
    /\ Contains(repo_data.full_name, "/")

\* "x or default" for a value that is None or a string.
OrElse(v, default) == IF v = NoneVal \/ v = "" THEN default ELSE v

\* A plausible slip: the entry always carries the key "variants", and the
\* list holds every colorscheme.
build_entry_allvariants(repo_data, colors) ==
    LET theme_name == normalize_theme_name(repo_data.full_name)
    IN  [name |-> theme_name,
         repo |-> repo_data.full_name,
         colorscheme |-> pick_base_colorscheme(theme_name, colors),
         description |-> OrElse(repo_data.description, ""),
         stars |-> repo_data.stargazers_count,
         topics |-> repo_data.topics,
         updated_at |-> OrElse(repo_data.updated_at, ""),
         archived |-> repo_data.archived,
         disabled |-> repo_data.disabled,
         variants |-> [i \in 1..Len(colors) |-> [name |-> colors[i], colorscheme |-> colors[i]]]]

\* The entry of build_entry; the key "variants" exists only when there are
\* secondary variants.
build_entry(repo_data, colors) ==
    LET theme_name == normalize_theme_name(repo_data.full_name)
        base_colorscheme == pick_base_colorscheme(theme_name, colors)
        others == SelectSeqBy(colors, {c \in {colors[i] : i \in 1..Len(colors)} :
                                           c # base_colorscheme})
        variants == [i \in 1..Len(others) |-> [name |-> others[i], colorscheme |-> others[i]]]
        entry == [name |-> theme_name,
                  repo |-> repo_data.full_name,
                  colorscheme |-> base_colorscheme,
                  description |-> OrElse(repo_data.description, ""),
                  stars |-> repo_data.stargazers_count,
                  topics |-> repo_data.topics,
                  updated_at |-> OrElse(repo_data.updated_at, ""),
                  archived |-> repo_data.archived,
                  disabled |-> repo_data.disabled]
    IN  IF Len(variants) > 0
        THEN [k \in DOMAIN entry \cup {"variants"} |->
                 IF k = "variants" THEN variants ELSE entry[k]]
        ELSE entry

(***************************************************************************)
(* state.py: StateStore over the repo_cache table                          *)
(***************************************************************************)

\* json.dumps(payload) and json.loads(payload_json): the text of a dict and
\* the dict read back from it.
JsonDumps(payload) == <<"json", payload>>
JsonLoads(text) == text[2]

RowIndex(st, repo) == CHOOSE i \in 1..Len(st) : st[i].repo = repo

\* session.get(RepoCache, repo) is not None
HasRow(st, repo) == \E i \in 1..Len(st) : st[i].repo = repo

\* StateStore.read_repo, for an identifier that has a row.
read_repo(st, repo) ==
    LET row == st[RowIndex(st, repo)]
    IN  [repo |-> row.repo,
         updated_at |-> row.updated_at,
         scanned_at |-> row.scanned_at,
         payload |-> JsonLoads(row.payload_json),
         parse_error |-> row.parse_error]

\* Truthiness of the parse_error column.
HasError(rec) == rec.parse_error # NoneVal /\ rec.parse_error # ""

\* A plausible slip: the staleness test with > in place of >=.
should_refresh_late(st, repo, discovered_updated_at, stale_after_days, t) ==
    IF ~HasRow(st, repo) THEN TRUE
    ELSE LET existing == read_repo(st, repo)
             stale_seconds == Max(1, stale_after_days) * 24 * 60 * 60
         IN  IF HasError(existing) THEN TRUE
             ELSE IF discovered_updated_at # ""
                     /\ existing.updated_at # discovered_updated_at THEN TRUE
             ELSE t - existing.scanned_at > stale_seconds

\* A plausible slip: the stored error is not looked at.
should_refresh_noerr(st, repo, discovered_updated_at, stale_after_days, t) ==
    IF ~HasRow(st, repo) THEN TRUE
    ELSE LET existing == read_repo(st, repo)
             stale_seconds == Max(1, stale_after_days) * 24 * 60 * 60
         IN  IF discovered_updated_at # ""
                /\ existing.updated_at # discovered_updated_at THEN TRUE
             ELSE t - existing.scanned_at >= stale_seconds

\* StateStore.should_refresh at time t = int(time.time()).
should_refresh(st, repo, discovered_updated_at, stale_after_days, t) ==
    IF ~HasRow(st, repo) THEN TRUE
    ELSE LET existing == read_repo(st, repo)
             stale_seconds == Max(1, stale_after_days) * 24 * 60 * 60
         IN  IF HasError(existing) THEN TRUE
             ELSE IF discovered_updated_at # ""
                     /\ existing.updated_at # discovered_updated_at THEN TRUE
             ELSE t - existing.scanned_at >= stale_seconds

\* StateStore.list_payloads: the payloads of the rows whose parse_error is
\* NULL, in the order of the table scan (rowid order).
RECURSIVE list_payloads(_)
list_payloads(st) ==
    IF Len(st) = 0 THEN <<>>
    ELSE (IF Head(st).parse_error = NoneVal
          THEN <<JsonLoads(Head(st).payload_json)>> ELSE <<>>) \o list_payloads(Tail(st))

NewRow(repo, updated_at, payload, parse_error, t) ==
    [repo |-> repo,
     updated_at |-> updated_at,
     scanned_at |-> t,
     payload_json |-> JsonDumps(payload),
     parse_error |-> parse_error]

\* A plausible slip: the conflict clause leaves payload_json out of set_.
upsert_repo_keeps_payload(st, repo, updated_at, payload, parse_error, t) ==
    IF HasRow(st, repo)
    THEN [i \in 1..Len(st) |->
             IF st[i].repo = repo
             THEN [repo |-> repo, updated_at |-> updated_at, scanned_at |-> t,
                   payload_json |-> st[i].payload_json, parse_error |-> parse_error]
             ELSE st[i]]
    ELSE Append(st, NewRow(repo, updated_at, payload, parse_error, t))

\* StateStore.upsert_repo: INSERT ... ON CONFLICT(repo) DO UPDATE in one
\* committed transaction. An existing row keeps its rowid, a new one is
\* appended.
upsert_repo(st, repo, updated_at, payload, parse_error, t) ==
    IF HasRow(st, repo)
    THEN [st EXCEPT ![RowIndex(st, repo)] = NewRow(repo, updated_at, payload, parse_error, t)]
    ELSE Append(st, NewRow(repo, updated_at, payload, parse_error, t))

(***************************************************************************)
(* The hosting API as the runs see it                                      *)
(***************************************************************************)

RepoA == "acme/mytheme.nvim"
RepoB == "zed/nord-vim"
Repos == {RepoA, RepoB}

\* The order in which the search lists the repositories.
RepoOrder == <<RepoA, RepoB>>

\* Update markers.
M1 == "2024-01-01T00:00:00Z"
M2 == "2024-02-02T00:00:00Z"
Markers == {M1, M2}

\* What GET /repos/{repo} answers, as fetch_repository sees it:
\*   ok, newer  a repository (updated_at M1, M2)
\*   archived, disabled, nostars  a repository a filter can reject
\*   invalid    a payload without full_name
\*   absent     404
\*   fail       the request exhausts its retries (GitHubRequestError)
\*   treefail   a repository whose tree request exhausts its retries
MetaProfiles ==
    {"ok", "newer", "archived", "disabled", "nostars", "invalid", "absent", "fail", "treefail"}

RepoPayload(repo, profile) ==
    [full_name |-> IF profile = "invalid" THEN NoneVal ELSE repo,
     stargazers_count |-> IF profile = "nostars" THEN 0 ELSE 5,
     archived |-> profile = "archived",
     disabled |-> profile = "disabled",
     default_branch |-> "main",
     updated_at |-> IF profile = "newer" THEN M2 ELSE M1,
     description |-> NoneVal,
     topics |-> <<>>]

\* GET /repos/{repo}/git/trees/{ref}?recursive=1
TreeOf(repo) ==
    IF repo = RepoA
    THEN <<[type |-> "blob", path |-> "colors/gruvbox.vim"],
           [type |-> "blob", path |-> "colors/nord.lua"],
           [type |-> "tree", path |-> "colors"],
           [type |-> "blob", path |-> "README.md"]>>
    ELSE <<[type |-> "blob", path |-> "colors/nord.vim"]>>

\* The message of a GitHubRequestError after exhausted retries.
RequestErrorText == RaiseText(HttpErrorText(500))

\* The search results of a topic: the listed repositories with their markers.
SearchResults(up, topic) ==
    LET listedSeq == SelectSeqBy(RepoOrder, {r \in Repos : up.listed[r] # "none"})
    IN  [i \in 1..Len(listedSeq) |->
            [full_name |-> listedSeq[i], updated_at |-> up.listed[listedSeq[i]]]]

\* What the search request for a page of a topic ends with: the payload
\* _request_json returns, or the GitHubRequestError it raises. The upstream
\* is given either page by page (up.pages) or as a listing that the API cuts
\* into pages of per_page items (up.listed; up.search = "fail" when the
\* requests exhaust their retries).
AnswerOf(payload) == [raised |-> FALSE, payload |-> payload, error |-> NoneVal]

RaiseOf(text) == [raised |-> TRUE, payload |-> JsonNone, error |-> text]

SearchAnswer(up, topic, page, per_page) ==
    IF "pages" \in DOMAIN up
    THEN IF page <= Len(up.pages[topic]) THEN up.pages[topic][page]
         ELSE AnswerOf(JsonObject([items |-> JsonArray(<<>>)]))
    ELSE IF up.search = "fail" THEN RaiseOf(RequestErrorText)
    ELSE LET all == SearchResults(up, topic)
             items == SubSeq(all, (page - 1) * per_page + 1, Min(Len(all), page * per_page))
         IN  AnswerOf(JsonObject([items |-> JsonArray([i \in 1..Len(items) |->
                                                          JsonObject(items[i])])]))

\* GitHubClient.search_repositories: one page and whether a next one follows,
\* or the error of the request.
search_repositories(up, topic, page, per_page) ==
    LET answer == SearchAnswer(up, topic, page, per_page)
        made == SearchPage(answer.payload, per_page)
    IN  [raised |-> answer.raised, error |-> answer.error,
         results |-> IF answer.raised THEN <<>> ELSE made.results,
         has_next |-> ~answer.raised /\ made.has_next]

(***************************************************************************)
(* runner.py                                                               *)
(***************************************************************************)

\* str.removesuffix
RemoveSuffix(s, suffix) ==
    IF EndsWith(s, suffix) THEN SubSeq(s, 1, Len(s) - Len(suffix)) ELSE s

_safe_repo(repo) == Strip(RemoveSuffix(Strip(repo, Whitespace), ".git"), {"/"})

\* An insertion-ordered dict as a sequence of [key, value] pairs.
DictHas(d, k) == \E i \in 1..Len(d) : d[i].key = k

DictGet(d, k) == d[CHOOSE i \in 1..Len(d) : d[i].key = k].value

\* d[k] = v: an existing key keeps its place, a new key goes last.
DictSet(d, k, v) ==
    IF DictHas(d, k)
    THEN [d EXCEPT ![CHOOSE i \in 1..Len(d) : d[i].key = k] = [key |-> k, value |-> v]]
    ELSE Append(d, [key |-> k, value |-> v])

DictValues(d) == [i \in 1..Len(d) |-> d[i].value]

\* d.pop(k, None)
RECURSIVE DictPop(_, _)
DictPop(d, k) ==
    IF Len(d) = 0 THEN <<>>
    ELSE (IF Head(d).key = k THEN <<>> ELSE <<Head(d)>>) \o DictPop(Tail(d), k)

\* A plausible slip: a later occurrence of an identifier replaces the marker.
RECURSIVE AddItems_lastwins(_, _)
AddItems_lastwins(found, items) ==
    IF Len(items) = 0 THEN found
    ELSE IF Len(items) = 1
    THEN LET repo == _safe_repo(items[1].repo)
         IN  IF repo # "" THEN DictSet(found, repo, items[1].updated_at) ELSE found
    ELSE LET half == Len(items) \div 2
             first == AddItems_lastwins(found, SubSeq(items, 1, half))
         IN  IF Len(first) = 0 THEN AddItems_lastwins(<<>>, SubSeq(items, half + 1, Len(items)))
             ELSE AddItems_lastwins(first, SubSeq(items, half + 1, Len(items)))

\* "for item in items": first occurrence of an identifier wins.  The loop
\* over a list is the loop over its first half followed by the loop over
\* its second half.
RECURSIVE AddItems(_, _)
AddItems(found, items) ==
    IF Len(items) = 0 THEN found
    ELSE IF Len(items) = 1
    THEN LET repo == _safe_repo(items[1].repo)
         IN  IF repo # "" /\ ~DictHas(found, repo)
             THEN DictSet(found, repo, items[1].updated_at)
             ELSE found
    ELSE LET half == Len(items) \div 2
             first == AddItems(found, SubSeq(items, 1, half))
         IN  IF Len(first) = 0 THEN AddItems(<<>>, SubSeq(items, half + 1, Len(items)))
             ELSE AddItems(first, SubSeq(items, half + 1, Len(items)))

\* Discovery under way: the dict, the search requests made so far as
\* <<topic, page>>, and the error of the request that raised, if one did.
NoDiscovery == [found |-> <<>>, log |-> <<>>, error |-> NoneVal]

\* A plausible slip: the loop goes on after a page that is not full.
RECURSIVE DiscoverTopic_nostop(_, _, _, _, _)
DiscoverTopic_nostop(up, cfg, topic, page, d) ==
    LET r == search_repositories(up, topic, page, cfg.per_page)
        asked == [d EXCEPT !.log = Append(@, <<topic, page>>)]
        added == [asked EXCEPT !.found = AddItems(@, r.results)]
    IN  IF r.raised THEN [asked EXCEPT !.error = r.error]
        ELSE IF Len(r.results) = 0 THEN asked
        ELSE IF cfg.max_pages_per_topic # 0 /\ page + 1 > cfg.max_pages_per_topic THEN added
        ELSE DiscoverTopic_nostop(up, cfg, topic, page + 1, added)

\* A plausible slip: the cap is compared with the page just requested, not
\* with the next one.
RECURSIVE DiscoverTopic_onemore(_, _, _, _, _)
DiscoverTopic_onemore(up, cfg, topic, page, d) ==
    LET r == search_repositories(up, topic, page, cfg.per_page)
        asked == [d EXCEPT !.log = Append(@, <<topic, page>>)]
        added == [asked EXCEPT !.found = AddItems(@, r.results)]
    IN  IF r.raised THEN [asked EXCEPT !.error = r.error]
        ELSE IF Len(r.results) = 0 THEN asked
        ELSE IF cfg.max_pages_per_topic # 0 /\ page > cfg.max_pages_per_topic THEN added
        ELSE IF ~r.has_next THEN added
        ELSE DiscoverTopic_onemore(up, cfg, topic, page + 1, added)

\* The "while True" loop over the pages of one topic.
RECURSIVE DiscoverTopic(_, _, _, _, _)
DiscoverTopic(up, cfg, topic, page, d) ==
    LET r == search_repositories(up, topic, page, cfg.per_page)
        asked == [d EXCEPT !.log = Append(@, <<topic, page>>)]
        added == [asked EXCEPT !.found = AddItems(@, r.results)]
    IN  IF r.raised THEN [asked EXCEPT !.error = r.error]
        ELSE IF Len(r.results) = 0 THEN asked
        ELSE IF cfg.max_pages_per_topic # 0 /\ page + 1 > cfg.max_pages_per_topic THEN added
        ELSE IF ~r.has_next THEN added
        ELSE DiscoverTopic(up, cfg, topic, page + 1, added)

\* "for topic in config.topics"; an exception ends it.
RECURSIVE DiscoverTopics(_, _, _, _)
DiscoverTopics(up, cfg, topics, d) ==
    IF Len(topics) = 0 \/ d.error # NoneVal THEN d
    ELSE DiscoverTopics(up, cfg, Tail(topics), DiscoverTopic(up, cfg, Head(topics), 1, d))

RECURSIVE AddIncludes(_, _)
AddIncludes(found, repos) ==
    IF Len(repos) = 0 THEN found
    ELSE LET normalized == _safe_repo(Head(repos))
         IN  AddIncludes(IF normalized # "" /\ ~DictHas(found, normalized)
                         THEN DictSet(found, normalized, "")
                         ELSE found,
                         Tail(repos))

\* A plausible slip: a failed search is passed over and discovery returns
\* what it has.
discover_repositories_besteffort(up, cfg) ==
    LET d == DiscoverTopics(up, cfg, cfg.topics, NoDiscovery)
    IN  [d EXCEPT !.found = AddIncludes(@, cfg.include_repos), !.error = NoneVal]

\* discover_repositories: .found is the dict returned, .error the exception
\* it leaves with instead.
discover_repositories(up, cfg) ==
    LET d == DiscoverTopics(up, cfg, cfg.topics, NoDiscovery)
    IN  IF d.error # NoneVal THEN d
        ELSE [d EXCEPT !.found = AddIncludes(@, cfg.include_repos)]

\* f"below min_stars ({stars} < {config.min_stars})"
BelowMinStarsText(stars, min_stars) ==
    "below min_stars (" \o ToString(stars) \o " < " \o ToString(min_stars) \o ")"

\* A plausible slip: the tree is fetched before the filters are applied.
_build_entry_for_repo_treefirst(up, cfg, repo) ==
    LET profile == up.meta[repo]
        repo_payload == RepoPayload(repo, profile)
        stars == repo_payload.stargazers_count
        Fail(kind, text, tree) == [ok |-> FALSE, kind |-> kind, error |-> text, tree |-> tree]
    IN  IF profile = "fail" THEN Fail("request", RequestErrorText, FALSE)
        ELSE IF profile = "absent" THEN Fail("absent", "repository metadata not found", FALSE)
        ELSE IF profile = "treefail" THEN Fail("request", RequestErrorText, TRUE)
        ELSE IF stars < cfg.min_stars
             THEN Fail("rejected", BelowMinStarsText(stars, cfg.min_stars), TRUE)
        ELSE IF cfg.skip_archived /\ repo_payload.archived
             THEN Fail("rejected", "repository archived", TRUE)
        ELSE IF cfg.skip_disabled /\ repo_payload.disabled
             THEN Fail("rejected", "repository disabled", TRUE)
        ELSE IF ~ValidFullName(repo_payload)
             THEN Fail("invalid", "invalid repository payload", TRUE)
        ELSE [ok |-> TRUE,
              entry |-> build_entry(repo_payload, extract_colorschemes(TreeOf(repo))),
              tree |-> TRUE]

\* _build_entry_for_repo: the entry, or the exception it leaves with.
\* kind: "absent" | "rejected" | "request" | "invalid"; tree: whether
\* fetch_repository_tree was called.
_build_entry_for_repo(up, cfg, repo) ==
    LET profile == up.meta[repo]
        repo_payload == RepoPayload(repo, profile)
        stars == repo_payload.stargazers_count
        Fail(kind, text, tree) == [ok |-> FALSE, kind |-> kind, error |-> text, tree |-> tree]
    IN  IF profile = "fail" THEN Fail("request", RequestErrorText, FALSE)
        ELSE IF profile = "absent" THEN Fail("absent", "repository metadata not found", FALSE)
        ELSE IF stars < cfg.min_stars
             THEN Fail("rejected", BelowMinStarsText(stars, cfg.min_stars), FALSE)
        ELSE IF cfg.skip_archived /\ repo_payload.archived
             THEN Fail("rejected", "repository archived", FALSE)
        ELSE IF cfg.skip_disabled /\ repo_payload.disabled
             THEN Fail("rejected", "repository disabled", FALSE)
        ELSE IF profile = "treefail" THEN Fail("request", RequestErrorText, TRUE)
        ELSE IF ~ValidFullName(repo_payload)
             THEN Fail("invalid", "invalid repository payload", TRUE)
        ELSE [ok |-> TRUE,
              entry |-> build_entry(repo_payload, extract_colorschemes(TreeOf(repo))),
              tree |-> TRUE]

(***************************************************************************)
(* merge.py                                                                *)
(***************************************************************************)

\* isinstance(repo, str) and repo, for repo = d.get("repo")
HasRepoKey(d) == "repo" \in DOMAIN d /\ d.repo # NoneVal /\ d.repo # ""

\* isinstance(value, dict) for a value held under a key of a mapping: a
\* mapping held as a value is a JsonObject, a list a JsonArray or a tuple,
\* and strings, numbers and booleans are themselves. The printed form tells
\* a record from the values that have no fields.
IsDict(value) ==
    /\ CharAt(ToString(value), 1) = "["
    /\ "json" \in DOMAIN value
    /\ value.json = "object"

\* A plausible slip: the value of the override replaces the value of the
\* base also where both are mappings.
_deep_merge_shallow(base, override) ==
    [k \in DOMAIN base \cup DOMAIN override |->
        IF k \in DOMAIN override THEN override[k] ELSE base[k]]

\* _deep_merge: the keys of the override are set on a copy of the base, a
\* mapping onto a mapping by the merge of the two.
RECURSIVE _deep_merge(_, _)
_deep_merge(base, override) ==
    [key \in DOMAIN base \cup DOMAIN override |->
        IF key \notin DOMAIN override THEN base[key]
        ELSE IF key \in DOMAIN base /\ IsDict(override[key]) /\ IsDict(base[key])
             THEN JsonObject(_deep_merge(base[key].value, override[key].value))
        ELSE override[key]]

\* ---- _deep_merge on objects: which dict objects the function writes to.
\* A heap maps the identity of a dict object to its content; a mapping held
\* as a value is a reference to its object. Identities are paths: the
\* object under key k of the object p is Child(p, k).
Child(id, key) == id \o "." \o key

Ref(id) == [json |-> "ref", value |-> id]

IsRef(value) == value.json = "ref"

\* The keys of the mapping d that hold a mapping.
DictKeys(d) == {k \in DOMAIN d : d[k].json = "object"}

\* The heap of the mapping d and of the mappings nested in it, the object of
\* d itself being root; keys are the nested mappings still to be added.
RECURSIVE HeapOf(_, _, _)
HeapOf(root, d, keys) ==
    IF keys = {}
    THEN root :> [k \in DOMAIN d |-> IF d[k].json = "object" THEN Ref(Child(root, k)) ELSE d[k]]
    ELSE LET key == CHOOSE k \in keys : TRUE
         IN  HeapOf(Child(root, key), d[key].value, DictKeys(d[key].value))
             @@ HeapOf(root, d, keys \ {key})

\* The mapping an object stands for.
RECURSIVE Deref(_, _)
Deref(h, id) ==
    [k \in DOMAIN h[id] |->
        IF IsRef(h[id][k]) THEN JsonObject(Deref(h, h[id][k].value)) ELSE h[id][k]]

\* A plausible slip: "merged = base", the base itself and no copy of it.
Merged_alias(base, fresh) == base

\* "merged = dict(base)": merged is a new object.
Merged(base, fresh) == fresh

\* merged[key] = value
SetItem(h, id, key, value) ==
    [o \in DOMAIN h |->
        IF o = id
        THEN [k \in DOMAIN h[id] \cup {key} |-> IF k = key THEN value ELSE h[id][k]]
        ELSE h[o]]

\* _deep_merge on objects: base and override are identities in the heap h,
\* fresh is the identity of the dict the call creates. The heap after the
\* call and the identity of the object returned.
RECURSIVE _deep_merge_refs(_, _, _, _)
RECURSIVE MergeItems(_, _, _, _)
MergeItems(h, override, merged, keys) ==
    IF keys = {} THEN h
    ELSE LET key == CHOOSE k \in keys : TRUE
             value == h[override][key]
         IN  IF IsRef(value) /\ key \in DOMAIN h[merged] /\ IsRef(h[merged][key])
             THEN LET inner == _deep_merge_refs(h, h[merged][key].value, value.value,
                                                Child(merged, key))
                  IN  MergeItems(SetItem(inner.heap, merged, key, Ref(inner.ref)),
                                 override, merged, keys \ {key})
             ELSE MergeItems(SetItem(h, merged, key, value), override, merged, keys \ {key})

_deep_merge_refs(h, base, override, fresh) ==
    LET merged == Merged(base, fresh)
        copied == [id \in DOMAIN h \cup {merged} |-> IF id = merged THEN h[base] ELSE h[id]]
    IN  [heap |-> MergeItems(copied, override, merged, DOMAIN h[override]), ref |-> merged]

\* A plausible slip: the entries are collected in a list, so that a second
\* entry of an identifier is added and does not replace the first.
RECURSIVE IndexByRepo_append(_, _)
IndexByRepo_append(by_repo, entries) ==
    IF Len(entries) = 0 THEN by_repo
    ELSE IndexByRepo_append(IF HasRepoKey(Head(entries))
                            THEN Append(by_repo, [key |-> Head(entries).repo,
                                                  value |-> Head(entries)])
                            ELSE by_repo,
                            Tail(entries))

\* by_repo[repo] = entry for the entries with a repo key.
RECURSIVE IndexByRepo(_, _)
IndexByRepo(by_repo, entries) ==
    IF Len(entries) = 0 THEN by_repo
    ELSE IndexByRepo(IF HasRepoKey(Head(entries))
                     THEN DictSet(by_repo, Head(entries).repo, Head(entries))
                     ELSE by_repo,
                     Tail(entries))

\* "for repo in excluded: by_repo.pop(repo, None)"
RECURSIVE PopAll(_, _)
PopAll(by_repo, excluded) ==
    IF excluded = {} THEN by_repo
    ELSE LET repo == CHOOSE r \in excluded : TRUE
         IN  PopAll(DictPop(by_repo, repo), excluded \ {repo})

\* The empty dict {} that an override without an entry is merged onto.
EmptyDict == [k \in {} |-> NoneVal]

RECURSIVE MergeOverrides(_, _)
MergeOverrides(by_repo, overrides) ==
    IF Len(overrides) = 0 THEN by_repo
    ELSE LET override == Head(overrides)
         IN  MergeOverrides(
                 IF ~HasRepoKey(override) THEN by_repo
                 ELSE DictSet(by_repo, override.repo,
                              _deep_merge(IF DictHas(by_repo, override.repo)
                                          THEN DictGet(by_repo, override.repo)
                                          ELSE EmptyDict,
                                          override)),
                 Tail(overrides))

\* A plausible slip: the exclusions are removed after the overrides are
\* merged.
apply_overrides_excluded_last(entries, overrides, excluded) ==
    DictValues(PopAll(MergeOverrides(IndexByRepo(<<>>, entries), overrides), excluded))

apply_overrides(entries, overrides, excluded) ==
    DictValues(MergeOverrides(PopAll(IndexByRepo(<<>>, entries), excluded), overrides))

(***************************************************************************)
(* runner.py: sorting and the run                                          *)
(***************************************************************************)

\* key(a) < key(b) for the key function of config.sort_by.
KeyLess(a, b, sort_by) ==
    CASE sort_by = "name" ->
            StrLess(Lower(OrElse(GetOr(a, "name", NoneVal), "")),
                    Lower(OrElse(GetOr(b, "name", NoneVal), "")))
      [] sort_by = "updated_at" ->
            StrLess(OrElse(GetOr(a, "updated_at", NoneVal), ""),
                    OrElse(GetOr(b, "updated_at", NoneVal), ""))
      [] OTHER -> GetOr(a, "stars", 0) < GetOr(b, "stars", 0)

\* A plausible slip: descending order as the reverse of the ascending
\* sort, which turns the order of equal keys around.
GoesBefore_reversed(e, x, cfg) ==
    IF cfg.sort_order = "desc" THEN ~KeyLess(e, x, cfg.sort_by) ELSE KeyLess(e, x, cfg.sort_by)

\* e goes before x when its key is strictly smaller (strictly larger under
\* reverse): equal keys keep their order, as sorted() does in both directions.
GoesBefore(e, x, cfg) ==
    IF cfg.sort_order = "desc" THEN KeyLess(x, e, cfg.sort_by) ELSE KeyLess(e, x, cfg.sort_by)

RECURSIVE InsertSorted(_, _, _)
InsertSorted(sorted, e, cfg) ==
    IF Len(sorted) = 0 THEN <<e>>
    ELSE IF GoesBefore(e, Head(sorted), cfg) THEN <<e>> \o sorted
    ELSE <<Head(sorted)>> \o InsertSorted(Tail(sorted), e, cfg)

RECURSIVE SortInto(_, _, _)
SortInto(sorted, entries, cfg) ==
    IF Len(entries) = 0 THEN sorted
    ELSE SortInto(InsertSorted(sorted, Head(entries), cfg), Tail(entries), cfg)

_sort_entries(entries, cfg) == SortInto(<<>>, entries, cfg)

\* Largest number of runs started.
MaxRuns == 2

\* Seconds that pass between the end of a run and the start of the next.
TimeSteps == {30 * 60, 24 * 60 * 60}

ZeroStats == [discovered |-> 0, fetched |-> 0, cached |-> 0, errors |-> 0, written |-> 0]

NoFile == [written |-> FALSE, entries |-> <<>>, raw |-> <<>>]

\* The payload of a manifest that holds none.
NoPayload ==
    [schema_version |-> 0, generated_at |-> 0, entries |-> 0, registry_path |-> "",
     sha256 |-> <<>>]

NoManifest == [written |-> FALSE, payload |-> NoPayload]

\* _write_json: the bytes written, json.dumps(payload, indent=2) + "\n".
_write_json(payload) == <<JsonDumps(payload), "\n">>

\* hashlib.sha256(raw).hexdigest(), taken as free of collisions: equal
\* digests mean equal bytes.
Sha256(raw) == <<"sha256", raw>>

\* A plausible slip: the digest is taken of the text before the newline.
_write_manifest_nonewline(raw, entries_count, t) ==
    [schema_version |-> 1,
     generated_at |-> t,
     entries |-> entries_count,
     registry_path |-> "themes.json",
     sha256 |-> Sha256(<<raw[1]>>)]

\* _write_manifest: the payload written, for the bytes read back from the
\* output file.
_write_manifest(raw, entries_count, t) ==
    [schema_version |-> 1,
     generated_at |-> t,
     entries |-> entries_count,
     registry_path |-> "themes.json",
     sha256 |-> Sha256(raw)]

\* Largest number of failures of the store or the file system in a behaviour.
MaxFaults == 1

\* The record of a run: the store opened and closed, operations on the store
\* after its close, the files written in order, the step an exception came
\* from, the counters returned, the manifest before the run, whether the
\* search failed, the identifiers whose cache write failed and those among
\* them whose failure the except clause took, and the failures so far.
NoLog ==
    [opens |-> 0, closes |-> 0, late |-> 0, writes |-> <<>>, phase |-> NoneVal,
     returned |-> NoneVal, startManifest |-> NoManifest, searchFailed |-> FALSE,
     upsertFailed |-> {}, absorbed |-> {}, faults |-> 0]

\* store = StateStore(config.state_db_path)
OpenStore(log) == [log EXCEPT !.opens = @ + 1]

\* A call of a method of the store.
UseStore(log) == [log EXCEPT !.late = @ + (IF log.closes > 0 THEN 1 ELSE 0)]

\* StateStore.close
close(log) == [log EXCEPT !.closes = @ + 1]

\* A plausible slip: the store is closed at the end of the try block, not in
\* a finally clause.
Finally_returnonly(log, how) == IF how = "returned" THEN close(log) ELSE log

\* "finally: store.close()" on the way out of run_once; how is "returned" or
\* "raised".
Finally(log, how) == close(log)

\* run_once leaves by an exception that came from the step named: the store
\* is closed and the locals are gone.
Leave(step, log) ==
    /\ pc' = "idle"
    /\ lastEnd' = "raised"
    /\ runlog' = Finally([log EXCEPT !.phase = step], "raised")
    /\ discovered' = <<>>
    /\ idx' = 1
    /\ entries_by_repo' = <<>>
    /\ stats' = ZeroStats

NoOutcome == [r \in Repos |-> "none"]

\* A plausible slip: the working set starts empty and holds only what the
\* run discovers.
SeedEntries_none(d, payloads) == d

\* "for payload in store.list_payloads(): entries_by_repo[repo] = payload"
RECURSIVE SeedEntries(_, _)
SeedEntries(d, payloads) ==
    IF Len(payloads) = 0 THEN d
    ELSE SeedEntries(IF HasRepoKey(Head(payloads))
                     THEN DictSet(d, Head(payloads).repo, Head(payloads))
                     ELSE d,
                     Tail(payloads))

\* run_once up to the refresh loop: the client and the store are opened,
\* discovery runs, and entries_by_repo is seeded from the cache. elapsed is
\* the time since the previous run ended.
StartRun(elapsed) ==
    /\ pc = "idle"
    /\ runs < MaxRuns
    /\ now' = now + elapsed
    /\ runs' = runs + 1
    /\ prev' = [valid |-> runs >= 1, end |-> lastEnd, outcome |-> outcome,
                last |-> [r \in Repos |-> IF outcome[r] # "none" THEN outcome[r]
                                          ELSE prev.last[r]],
                output |-> output, overrides |-> overridesFile]
    /\ hist' = [startStore |-> store, upserts |-> {}, sameUpstream |-> unchanged /\ runs >= 1,
                trees |-> {}]
    /\ unchanged' = TRUE
    /\ liveFetched' = {}
    /\ outcome' = NoOutcome
    /\ LET found == discover_repositories(upstream, config)
           opened == OpenStore([NoLog EXCEPT !.faults = runlog.faults,
                                             !.startManifest = manifest,
                                             !.searchFailed = upstream.search = "fail"])
       IN  IF found.error # NoneVal
           THEN Leave("discovery", opened)
           ELSE /\ discovered' = found.found
                /\ stats' = [ZeroStats EXCEPT !.discovered = Len(discovered')]
                /\ entries_by_repo' = SeedEntries(<<>>, list_payloads(store))
                /\ runlog' = UseStore(opened)
                /\ idx' = 1
                /\ pc' = "refresh"
                /\ lastEnd' = "running"
    /\ UNCHANGED <<config, overridesFile, upstream, store, output, manifest,
                   reqVars, srVars, dcVars, fnVars>>

\* isinstance(payload, dict) for what json.loads gave: a mapping has strings
\* as keys.
IsMapping(payload) == DOMAIN payload \subseteq STRING

\* A plausible slip: serving an identifier from the table renews the time
\* of its scan.
ItemCached_touch(repo) ==
    LET cached == read_repo(store, repo)
    IN  /\ entries_by_repo' = DictSet(entries_by_repo, repo, cached.payload)
        /\ stats' = [stats EXCEPT !.cached = @ + 1]
        /\ outcome' = [outcome EXCEPT ![repo] = "cached"]
        /\ store' = upsert_repo(store, repo, cached.updated_at, cached.payload,
                                cached.parse_error, now)
        /\ UNCHANGED <<liveFetched, hist>>

\* A plausible slip: the cached payload is reused and not counted.
ItemCached_uncounted(repo) ==
    LET cached == read_repo(store, repo)
    IN  /\ entries_by_repo' = DictSet(entries_by_repo, repo, cached.payload)
        /\ outcome' = [outcome EXCEPT ![repo] = "cached"]
        /\ UNCHANGED <<stats, store, liveFetched, hist>>

\* Lines 140-144: the cached payload is reused and counted when it is a
\* dict; "continue" in either case.
ItemCached(repo) ==
    LET cached == read_repo(store, repo)
    IN  /\ IF IsMapping(cached.payload)
           THEN /\ entries_by_repo' = DictSet(entries_by_repo, repo, cached.payload)
                /\ stats' = [stats EXCEPT !.cached = @ + 1]
                /\ outcome' = [outcome EXCEPT ![repo] = "cached"]
           ELSE /\ outcome' = [outcome EXCEPT ![repo] = "skipped"]
                /\ UNCHANGED <<entries_by_repo, stats>>
        /\ UNCHANGED <<store, liveFetched, hist>>

\* Lines 148-155: the entry is stored and joins the working set.
ItemFetched(repo, entry) ==
    /\ store' = upsert_repo(store, repo, entry.updated_at, entry, NoneVal, now)
    /\ hist' = [hist EXCEPT !.upserts = @ \cup {NewRow(repo, entry.updated_at, entry, NoneVal, now)},
                            !.trees = @ \cup {repo}]
    /\ entries_by_repo' = DictSet(entries_by_repo, repo, entry)
    /\ stats' = [stats EXCEPT !.fetched = @ + 1]
    /\ outcome' = [outcome EXCEPT ![repo] = "fetched"]
    /\ liveFetched' = liveFetched \cup {repo}

\* The payload of an error record.
ErrorPayload(repo) == [repo |-> repo]

\* A plausible slip: the record is stored without the text of the error.
ItemError_noerrortext(repo, discovered_updated_at, built) ==
    /\ store' = upsert_repo(store, repo, discovered_updated_at, ErrorPayload(repo),
                            NoneVal, now)
    /\ hist' = [hist EXCEPT !.upserts = @ \cup
                   {NewRow(repo, discovered_updated_at, ErrorPayload(repo), NoneVal, now)},
                            !.trees = IF built.tree THEN @ \cup {repo} ELSE @]
    /\ stats' = [stats EXCEPT !.errors = @ + 1]
    /\ outcome' = [outcome EXCEPT ![repo] = IF built.kind = "rejected" THEN "rejected" ELSE "failed"]
    /\ liveFetched' = liveFetched \cup {repo}
    /\ UNCHANGED entries_by_repo

\* A plausible slip: the failure is counted and nothing is stored.
ItemError_unrecorded(repo, discovered_updated_at, built) ==
    /\ stats' = [stats EXCEPT !.errors = @ + 1]
    /\ outcome' = [outcome EXCEPT ![repo] = IF built.kind = "rejected" THEN "rejected" ELSE "failed"]
    /\ liveFetched' = liveFetched \cup {repo}
    /\ hist' = [hist EXCEPT !.trees = IF built.tree THEN @ \cup {repo} ELSE @]
    /\ UNCHANGED <<entries_by_repo, store>>

\* Lines 156-163: the except clause stores an error record and counts it.
ItemError(repo, discovered_updated_at, built) ==
    /\ store' = upsert_repo(store, repo, discovered_updated_at, ErrorPayload(repo),
                            built.error, now)
    /\ hist' = [hist EXCEPT !.upserts = @ \cup
                   {NewRow(repo, discovered_updated_at, ErrorPayload(repo), built.error, now)},
                            !.trees = IF built.tree THEN @ \cup {repo} ELSE @]
    /\ stats' = [stats EXCEPT !.errors = @ + 1]
    /\ outcome' = [outcome EXCEPT ![repo] = IF built.kind = "rejected" THEN "rejected" ELSE "failed"]
    /\ liveFetched' = liveFetched \cup {repo}
    /\ UNCHANGED entries_by_repo

\* One iteration of "for repo, discovered_updated_at in discovered.items()".
RefreshStep ==
    /\ pc = "refresh"
    /\ idx <= Len(discovered)
    /\ LET repo == discovered[idx].key
           discovered_updated_at == discovered[idx].value
           built == _build_entry_for_repo(upstream, config, repo)
       IN  IF ~should_refresh(store, repo, discovered_updated_at, config.stale_after_days, now)
           THEN ItemCached(repo)
           ELSE IF built.ok THEN ItemFetched(repo, built.entry)
           ELSE ItemError(repo, discovered_updated_at, built)
    /\ idx' = idx + 1
    /\ runlog' = UseStore(runlog)
    /\ UNCHANGED <<config, overridesFile, upstream, now, pc, discovered, output, manifest,
                   runs, lastEnd, prev, unchanged, reqVars, srVars, dcVars, fnVars>>

\* The classes of exception a failing store.upsert_repo leaves with: one that
\* is a ValueError (UnicodeEncodeError of the sqlite3 driver for a string it
\* cannot encode) and one that is neither a RuntimeError nor a ValueError
\* (sqlalchemy.exc.OperationalError).
UpsertErrors == {"ValueError", "OperationalError"}

\* str(error) of such an exception.
UpsertErrorText(cls) ==
    IF cls = "ValueError" THEN "'utf-8' codec can't encode character: surrogates not allowed"
    ELSE "(sqlite3.OperationalError) database or disk is full"

\* "except (GitHubRequestError, RuntimeError, ValueError)"
Caught(cls) == cls \in {"GitHubRequestError", "RuntimeError", "ValueError"}

\* One iteration in which the first store.upsert_repo that is reached raises
\* an exception of class cls and writes nothing. On the success path (line
\* 153, inside the try) the except clause takes an exception it names and
\* goes on to store the error record; every other exception, and every one
\* raised by the upsert of the except clause, leaves run_once.
UpsertFails(cls) ==
    /\ pc = "refresh"
    /\ idx <= Len(discovered)
    /\ runlog.faults < MaxFaults
    /\ LET repo == discovered[idx].key
           discovered_updated_at == discovered[idx].value
           built == _build_entry_for_repo(upstream, config, repo)
           failed == [UseStore(runlog) EXCEPT !.faults = @ + 1,
                                              !.upsertFailed = @ \cup {repo}]
       IN  /\ should_refresh(store, repo, discovered_updated_at, config.stale_after_days, now)
           /\ IF built.ok /\ Caught(cls)
              THEN /\ ItemError(repo, discovered_updated_at,
                                [ok |-> FALSE, kind |-> "persist",
                                 error |-> UpsertErrorText(cls), tree |-> TRUE])
                   /\ idx' = idx + 1
                   /\ runlog' = [failed EXCEPT !.absorbed = @ \cup {repo}]
                   /\ UNCHANGED <<pc, lastEnd, discovered>>
              ELSE /\ Leave("refresh", failed)
                   /\ liveFetched' = liveFetched \cup {repo}
                   /\ hist' = [hist EXCEPT !.trees = IF built.tree THEN @ \cup {repo} ELSE @]
                   /\ UNCHANGED <<store, outcome>>
    /\ UNCHANGED <<config, overridesFile, upstream, now, output, manifest,
                   runs, prev, unchanged, reqVars, srVars, dcVars, fnVars>>

\* What overrides.json can hold when load_overrides reads it.
OverrideFiles ==
    {[overrides |-> <<>>, excluded |-> {}],
     [overrides |-> <<[repo |-> RepoA, stars |-> 9]>>, excluded |-> {RepoA}]}

\* Lines 165-173: load the overrides, merge, sort, write the output and the
\* manifest, return the counters. file is the content of overrides.json at
\* that moment.
FinishRun(file) ==
    /\ pc = "refresh"
    /\ idx > Len(discovered)
    /\ overridesFile' = file
    /\ LET merged == apply_overrides(DictValues(entries_by_repo), file.overrides, file.excluded)
           sorted_entries == _sort_entries(merged, config)
           raw == _write_json(sorted_entries)
       IN  /\ output' = [written |-> TRUE, entries |-> sorted_entries, raw |-> raw]
           /\ manifest' = [written |-> TRUE,
                           payload |-> _write_manifest(raw, Len(sorted_entries), now)]
           /\ stats' = [stats EXCEPT !.written = Len(sorted_entries)]
    /\ runlog' = Finally([runlog EXCEPT !.writes = <<"output", "manifest">>,
                                        !.returned = stats'], "returned")
    /\ pc' = "idle"
    /\ lastEnd' = "returned"
    /\ UNCHANGED <<config, upstream, store, now, discovered, idx,
                   entries_by_repo, runs, liveFetched, outcome, prev, unchanged, hist,
                   reqVars, srVars, dcVars, fnVars>>

\* A plausible slip: the output file is written before the overrides are
\* loaded.
OverridesInvalid_afterwrite ==
    /\ pc = "refresh"
    /\ idx > Len(discovered)
    /\ runlog.faults < MaxFaults
    /\ output' = [written |-> TRUE, entries |-> DictValues(entries_by_repo),
                  raw |-> _write_json(DictValues(entries_by_repo))]
    /\ Leave("overrides", [runlog EXCEPT !.faults = @ + 1, !.writes = <<"output">>])
    /\ UNCHANGED <<config, overridesFile, upstream, store, now, manifest, runs,
                   liveFetched, outcome, prev, unchanged, hist, reqVars, srVars, dcVars, fnVars>>

\* overrides.json holds text that is not JSON: json.loads in load_overrides
\* raises, outside the try of the loop. overridesFile keeps the content that
\* was last parsed.
OverridesInvalid ==
    /\ pc = "refresh"
    /\ idx > Len(discovered)
    /\ runlog.faults < MaxFaults
    /\ Leave("overrides", [runlog EXCEPT !.faults = @ + 1])
    /\ UNCHANGED <<config, overridesFile, upstream, store, now, output, manifest, runs,
                   liveFetched, outcome, prev, unchanged, hist, reqVars, srVars, dcVars, fnVars>>

\* What a file holds after a write that failed once the file was opened: no
\* bytes.
TornFile == [written |-> TRUE, entries |-> <<>>, raw |-> <<>>]

TornManifest == [written |-> TRUE, payload |-> NoPayload]

\* A write of an artifact raises OSError: of the output file (kept as it is
\* or torn, the manifest not reached), or of the manifest (the output file
\* is the new one).
WriteFails(file, which) ==
    /\ pc = "refresh"
    /\ idx > Len(discovered)
    /\ runlog.faults < MaxFaults
    /\ LET merged == apply_overrides(DictValues(entries_by_repo), file.overrides, file.excluded)
           sorted_entries == _sort_entries(merged, config)
           raw == _write_json(sorted_entries)
       IN  IF which = "output"
           THEN /\ (output' = output \/ output' = TornFile)
                /\ manifest' = manifest
                /\ Leave("output", [runlog EXCEPT !.faults = @ + 1])
           ELSE /\ output' = [written |-> TRUE, entries |-> sorted_entries, raw |-> raw]
                /\ (manifest' = manifest \/ manifest' = TornManifest)
                /\ Leave("manifest", [runlog EXCEPT !.faults = @ + 1, !.writes = <<"output">>])
    /\ overridesFile' = file
    /\ UNCHANGED <<config, upstream, store, now, runs, liveFetched, outcome, prev,
                   unchanged, hist, reqVars, srVars, dcVars, fnVars>>

\* The process is terminated during the refresh phase: what is in memory is
\* lost, the table keeps what was committed.
Terminate ==
    /\ pc = "refresh"
    /\ pc' = "idle"
    /\ lastEnd' = "killed"
    /\ discovered' = <<>>
    /\ idx' = 1
    /\ entries_by_repo' = <<>>
    /\ stats' = ZeroStats
    /\ UNCHANGED <<config, overridesFile, upstream, store, now, output, manifest, runs,
                   liveFetched, outcome, prev, unchanged, hist, runlog,
                   reqVars, srVars, dcVars, fnVars>>

\* Between two runs the hosting side changes what it answers: the listing of
\* a repository in the search, or the metadata of RepoA.
UpstreamChange ==
    /\ pc = "idle"
    /\ runs >= 1
    /\ runs < MaxRuns
    /\ unchanged
    /\ \/ \E r \in Repos :
             \E l \in ({"none"} \cup Markers) \ {upstream.listed[r]} :
                upstream' = [upstream EXCEPT !.listed[r] = l]
       \/ \E m \in MetaProfiles \ {upstream.meta[RepoA]} :
             upstream' = [upstream EXCEPT !.meta[RepoA] = m]
       \/ \E a \in {"ok", "fail"} \ {upstream.search} :
             upstream' = [upstream EXCEPT !.search = a]
    /\ unchanged' = FALSE
    /\ UNCHANGED <<config, overridesFile, store, now, pc, discovered, idx, entries_by_repo,
                   stats, output, manifest, runs, lastEnd, liveFetched, outcome, prev, hist,
                   runlog, reqVars, srVars, dcVars, fnVars>>

(***************************************************************************)
(* Initial states and specifications                                       *)
(***************************************************************************)

\* No attempt made yet by either instance.
NoPace == [c \in Clients |-> [last |-> -1, lastEp |-> NoneVal]]

\* The request layer at rest (a client that has made no call).
ReqRest ==
    /\ retry_limit = 1
    /\ attempt = 1
    /\ last_error = NoneVal
    /\ rqpc = "returned"
    /\ rqresult = NoneVal
    /\ httpAttempts = 0
    /\ failSeen = 0
    /\ rlSeen = 0
    /\ lastFailure = NoneVal
    /\ request_delay = 0
    /\ client = 1
    /\ endpoint = "search"
    /\ next_request_time = [c \in Clients |-> 0]
    /\ clock = 0
    /\ epresult = NoneVal
    /\ pace = NoPace
    /\ lastResp = NoResponse
    /\ sleptAfter = 0

NoCall == [repo |-> NoneVal, marker |-> "", days |-> 0]

SrRest == sr_in = NoCall /\ sr_out = FALSE

NotCalled == [called |-> FALSE]

DcRest == dc_in = NoneVal /\ dc_out = NotCalled

FnRest == fn_in = NoneVal /\ fn_out = NotCalled

\* The configuration of the runs: the defaults of config.py with a window of
\* one day, a star floor of 1 and one include-list identifier.
RunConfig ==
    [topics |-> <<"neovim-colorscheme">>,
     include_repos |-> <<"zed/nord-vim.git">>,
     per_page |-> 100,
     max_pages_per_topic |-> 5,
     stale_after_days |-> 1,
     min_stars |-> 1,
     skip_archived |-> TRUE,
     skip_disabled |-> TRUE,
     sort_by |-> "stars",
     sort_order |-> "desc"]

NoPrev == [valid |-> FALSE, end |-> "none", outcome |-> NoOutcome, last |-> NoOutcome,
           output |-> NoFile, overrides |-> [overrides |-> <<>>, excluded |-> {}]]

NoHist == [startStore |-> <<>>, upserts |-> {}, sameUpstream |-> FALSE, trees |-> {}]

InitProfiles == {"ok", "archived", "fail"}

\* No run has started yet.
RunMemory ==
    /\ config = RunConfig
    /\ overridesFile = [overrides |-> <<>>, excluded |-> {}]
    /\ pc = "idle"
    /\ discovered = <<>>
    /\ idx = 1
    /\ entries_by_repo = <<>>
    /\ stats = ZeroStats
    /\ output = NoFile
    /\ manifest = NoManifest
    /\ runlog = NoLog
    /\ runs = 0
    /\ lastEnd = "none"
    /\ liveFetched = {}
    /\ outcome = NoOutcome
    /\ prev = NoPrev
    /\ unchanged = TRUE
    /\ hist = NoHist

\* A new database, before the first run.
RunFresh == RunMemory /\ store = <<>> /\ now = 0

RunRest ==
    /\ RunFresh
    /\ upstream = [listed |-> [r \in Repos |-> "none"], meta |-> [r \in Repos |-> "ok"],
                   search |-> "ok"]

Init ==
    /\ ReqRest
    /\ SrRest
    /\ DcRest
    /\ FnRest
    /\ RunFresh
    /\ upstream \in [listed : [Repos -> {"none"} \cup Markers],
                     meta : [Repos -> InitProfiles],
                     search : {"ok", "fail"}]

Next ==
    \/ \E elapsed \in TimeSteps : StartRun(elapsed)
    \/ RefreshStep
    \/ \E cls \in UpsertErrors : UpsertFails(cls)
    \/ \E file \in OverrideFiles : FinishRun(file)
    \/ OverridesInvalid
    \/ \E file \in OverrideFiles, which \in {"output", "manifest"} : WriteFails(file, which)
    \/ Terminate
    \/ UpstreamChange

Spec == Init /\ [][Next]_vars

\* ---- _request_json under every sequence of answers
InitReq ==
    /\ retry_limit \in 1..MaxRetry
    /\ attempt = 1
    /\ last_error = NoneVal
    /\ rqpc = "loop"
    /\ rqresult = NoneVal
    /\ httpAttempts = 0
    /\ failSeen = 0
    /\ rlSeen = 0
    /\ lastFailure = NoneVal
    /\ request_delay = 0
    /\ client = 1
    /\ endpoint \in Endpoints
    /\ next_request_time = [c \in Clients |-> 0]
    /\ clock = 0
    /\ epresult = NoneVal
    /\ pace = NoPace
    /\ lastResp = NoResponse
    /\ sleptAfter = 0
    /\ SrRest
    /\ DcRest
    /\ FnRest
    /\ RunRest

NextReq ==
    \/ Attempt
    \/ \E ep \in Endpoints : NewRequest(1, ep)

SpecReq == InitReq /\ [][NextReq]_vars

\* ---- one call of _request_json with every retry_limit the configuration
\* allows, followed through all its sleeps
InitBackoff ==
    /\ retry_limit \in 1..MaxBackoffRetry
    /\ attempt = 1
    /\ last_error = NoneVal
    /\ rqpc = "loop"
    /\ rqresult = NoneVal
    /\ httpAttempts = 0
    /\ failSeen = 0
    /\ rlSeen = 0
    /\ lastFailure = NoneVal
    /\ request_delay = 0
    /\ client = 1
    /\ endpoint = "repo"
    /\ next_request_time = [c \in Clients |-> 0]
    /\ clock = 0
    /\ epresult = NoneVal
    /\ pace = NoPace
    /\ lastResp = NoResponse
    /\ sleptAfter = 0
    /\ SrRest
    /\ DcRest
    /\ FnRest
    /\ RunRest

\* An attempt with an answer of each class.
BackoffAttempt == \E resp \in PacedResponses : RequestAttempt(resp, 0, 1)

NextBackoff == BackoffAttempt

\* ---- the rate-limit branch: status, headers and the length of the sleep

Digits == "0123456789"

\* The value of a string of decimal digits.
RECURSIVE DigitsValue(_)
DigitsValue(s) ==
    IF Len(s) = 0 THEN 0
    ELSE DigitsValue(SubSeq(s, 1, Len(s) - 1)) * 10 + (Find(Digits, CharAt(s, Len(s))) - 1)

\* The text without the surrounding whitespace and without its sign.
Unsigned(text) ==
    LET t == Strip(text, Whitespace)
    IN  IF Len(t) > 0 /\ CharAt(t, 1) \in {"+", "-"} THEN SubSeq(t, 2, Len(t)) ELSE t

\* int(text) does not raise ValueError: an optional sign and decimal digits,
\* whitespace around them allowed.
IsIntText(text) ==
    /\ Len(Unsigned(text)) > 0
    /\ \A i \in 1..Len(Unsigned(text)) : Contains(Digits, CharAt(Unsigned(text), i))

\* int(text)
IntOf(text) ==
    IF CharAt(Strip(text, Whitespace), 1) = "-"
    THEN 0 - DigitsValue(Unsigned(text))
    ELSE DigitsValue(Unsigned(text))

\* Lines 75-78: sleep_seconds = max(1, int(reset_at) - int(time.time()) + 1),
\* 60 when int(reset_at) raises ValueError; t is int(time.time()).
sleep_seconds(reset_at, t) ==
    IF IsIntText(reset_at) THEN Max(1, IntOf(reset_at) - t + 1) ELSE 60

\* Status codes and headers of the HTTP errors of these calls: the reset
\* header is absent, empty, an integer ahead of the clock or behind it, an
\* integer with a space before it, or no integer.
RateCodes == {403, 404, 429, 500}
RateRemaining == {"0", "1", NoneVal}
RateResets == {NoneVal, "", "0", "3", " 5", "soon", "2.5"}

RateResponses ==
    {[kind |-> "http", code |-> c, remaining |-> rem, reset |-> rst] :
        c \in RateCodes, rem \in RateRemaining, rst \in RateResets}
    \cup {[kind |-> "ok", body |-> "", doc |-> JsonNone], [kind |-> "exc", msg |-> "timed out"]}

\* retry_limit of these calls.
RateRetry == 4

InitRate ==
    /\ retry_limit = RateRetry
    /\ attempt = 1
    /\ last_error = NoneVal
    /\ rqpc = "loop"
    /\ rqresult = NoneVal
    /\ httpAttempts = 0
    /\ failSeen = 0
    /\ rlSeen = 0
    /\ lastFailure = NoneVal
    /\ request_delay = 0
    /\ client = 1
    /\ endpoint = "repo"
    /\ next_request_time = [c \in Clients |-> 0]
    /\ clock \in 0..2
    /\ epresult = NoneVal
    /\ pace = NoPace
    /\ lastResp = NoResponse
    /\ sleptAfter = 0
    /\ SrRest
    /\ DcRest
    /\ FnRest
    /\ RunRest

\* An attempt whose rate-limit sleep is computed from the reset header and
\* the clock.
RateAttempt ==
    \E resp \in RateResponses :
        RequestAttempt(resp, 0,
                       IF resp.kind = "http" THEN sleep_seconds(resp.reset, clock) ELSE 0)

NextRate == RateAttempt

SpecRate == InitRate /\ [][NextRate]_vars

SpecBackoff == InitBackoff /\ [][NextBackoff]_vars

\* ---- the pacing clock: two instances, requests that take time
\* Largest retry_limit of the paced calls.
PaceRetry == 2

InitPace ==
    /\ retry_limit \in 1..PaceRetry
    /\ attempt = 1
    /\ last_error = NoneVal
    /\ rqpc = "loop"
    /\ rqresult = NoneVal
    /\ httpAttempts = 0
    /\ failSeen = 0
    /\ rlSeen = 0
    /\ lastFailure = NoneVal
    /\ request_delay \in Delays
    /\ client = 1
    /\ endpoint = "search"
    /\ next_request_time = [c \in Clients |-> 0]
    /\ clock = 0
    /\ epresult = NoneVal
    /\ pace = NoPace
    /\ lastResp = NoResponse
    /\ sleptAfter = 0
    /\ SrRest
    /\ DcRest
    /\ FnRest
    /\ RunRest

NextPace ==
    \/ PacedAttempt
    \/ \E c \in Clients, ep \in Endpoints : NewRequest(c, ep)

SpecPace == InitPace /\ [][NextPace]_vars

\* ---- should_refresh over drawn records and arguments
\* Largest stale_after_days drawn (the configuration allows any value >= 1).
MaxDays == 2

DaySeconds == 24 * 60 * 60

\* The rows an earlier run can have left for RepoA: a success row carries the
\* entry and its updated_at, an error row the discovered marker and the text.
SrRows(t) ==
    {NewRow(RepoA, e.updated_at, e, NoneVal, t) :
        e \in {build_entry(p, <<>>) :
                  p \in {[RepoPayload(RepoA, "ok") EXCEPT !.updated_at = u] :
                            u \in Markers \cup {NoneVal}}}}
    \cup
    {NewRow(RepoA, m, ErrorPayload(RepoA), err, t) :
        m \in Markers \cup {""}, err \in {"repository archived", RequestErrorText}}

InitRefresh ==
    /\ ReqRest
    /\ SrRest
    /\ DcRest
    /\ FnRest
    /\ RunMemory
    /\ upstream = [listed |-> [r \in Repos |-> "none"], meta |-> [r \in Repos |-> "ok"],
                   search |-> "ok"]
    /\ now \in {k * DaySeconds : k \in 1..(MaxDays + 1)}
    /\ store \in {<<>>} \cup {<<row>> : row \in UNION {SrRows(t) : t \in {0, 1, DaySeconds}}}

\* One call of should_refresh with drawn arguments.
CallShouldRefresh(repo, marker, days) ==
    /\ sr_in' = [repo |-> repo, marker |-> marker, days |-> days]
    /\ sr_out' = should_refresh(store, repo, marker, days, now)
    /\ UNCHANGED <<reqVars, dcVars, fnVars, runVars>>

NextRefresh ==
    \E repo \in Repos, marker \in Markers \cup {""}, days \in 1..MaxDays :
        CallShouldRefresh(repo, marker, days)

SpecRefresh == InitRefresh /\ [][NextRefresh]_vars

\* ---- discover_repositories over drawn search pages
\* Pages the upstream holds for the first topic, at most.
MaxPages == 3

DiscoverTopicsList == <<"neovim-colorscheme", "vim-colorscheme">>

SearchItemOf(full_name, updated_at) ==
    JsonObject([full_name |-> full_name, updated_at |-> updated_at])

\* An item that is not an object.
BadItem == JsonArray(<<>>)

PageOf(items) == AnswerOf(JsonObject([items |-> JsonArray(items)]))

\* The answers to one search request, for per_page = 2: full pages (one of
\* them with an unusable item, one with none usable), a short page, an empty
\* page, a body that is not an object, and exhausted retries. Identifiers
\* come back under another spelling and with another marker.
PageAnswers ==
    {PageOf(<<SearchItemOf(RepoA, M1), SearchItemOf(RepoB, M1)>>),
     PageOf(<<SearchItemOf(RepoA \o ".git", M2), SearchItemOf("new/one", M1)>>),
     PageOf(<<SearchItemOf(RepoB, M2), BadItem>>),
     PageOf(<<BadItem, SearchItemOf(NoneVal, M1)>>),
     PageOf(<<SearchItemOf("new/one", M2)>>),
     PageOf(<<>>),
     AnswerOf(JsonNone),
     RaiseOf(RequestErrorText)}

SeqsUpTo(S, n) == UNION {[1..k -> S] : k \in 0..n}

DiscoverConfigs ==
    {[RunConfig EXCEPT !.topics = DiscoverTopicsList, !.per_page = 2,
                       !.max_pages_per_topic = cap] : cap \in {0, 1, 2}}

\* The scenario of pages of 100, 100 and 40 items with per_page = 100 and no
\* page cap.
BigPage(from, to) ==
    PageOf([i \in 1..(to - from + 1) |-> SearchItemOf("owner/repo" \o ToString(from + i - 1), M1)])

BigInput ==
    [up |-> [pages |-> [t \in {"neovim-colorscheme"} |->
                           <<BigPage(1, 100), BigPage(101, 200), BigPage(201, 240)>>]],
     cfg |-> [RunConfig EXCEPT !.topics = <<"neovim-colorscheme">>, !.per_page = 100,
                               !.max_pages_per_topic = 0, !.include_repos = <<>>]]

DiscoverInputs ==
    {[up |-> [pages |-> [t \in {DiscoverTopicsList[1], DiscoverTopicsList[2]} |->
                            IF t = DiscoverTopicsList[1] THEN first ELSE second]],
      cfg |-> cfg] :
        first \in SeqsUpTo(PageAnswers, MaxPages),
        second \in SeqsUpTo(PageAnswers, 1),
        cfg \in DiscoverConfigs}
    \cup {BigInput}

InitDiscover ==
    /\ ReqRest
    /\ SrRest
    /\ RunRest
    /\ FnRest
    /\ dc_in \in DiscoverInputs
    /\ dc_out = NotCalled

\* One call of discover_repositories.
CallDiscover ==
    /\ ~dc_out.called
    /\ dc_out' = [called |-> TRUE, result |-> discover_repositories(dc_in.up, dc_in.cfg)]
    /\ UNCHANGED <<dc_in, reqVars, srVars, fnVars, runVars>>

NextDiscover == CallDiscover

SpecDiscover == InitDiscover /\ [][NextDiscover]_vars

\* ---- _deep_merge and apply_overrides over drawn arguments

\* The partial functions from the keys to the values: the mappings with some
\* of the keys.
DictsOver(keys, values) == UNION {[ks -> values] : ks \in SUBSET keys}

\* Values that are not mappings: two numbers and two lists.
MergeLeaves == {JsonNumber(1), JsonNumber(9), JsonArray(<<1>>), JsonArray(<<1, 2>>)}

\* Mappings held under key "c" of a nested mapping.
InnerMost == {JsonObject(d) : d \in DictsOver({"d"}, {JsonNumber(1), JsonNumber(9)})}

\* Mappings held under key "a": b is a number, c a number or a mapping.
Inner ==
    {JsonObject(d) :
        d \in {f \in DictsOver({"b", "c"}, {JsonNumber(1), JsonNumber(9)} \cup InnerMost) :
                  "b" \in DOMAIN f => f.b.json = "number"}}

\* The mappings _deep_merge is applied to: a is a number, a list or a
\* mapping, s a number or a list.
MergeDicts ==
    {f \in DictsOver({"a", "s"}, MergeLeaves \cup Inner) :
        "s" \in DOMAIN f => f.s \in {JsonNumber(1), JsonArray(<<1, 2>>)}}

\* The example of the deep-merge law: {a: {b: 9}} onto {a: {b: 1, c: 2}}.
LawBase == [a |-> JsonObject([b |-> JsonNumber(1), c |-> JsonNumber(2)])]
LawOverride == [a |-> JsonObject([b |-> JsonNumber(9)])]

DeepMergeInputs ==
    {[fn |-> "_deep_merge", base |-> b, override |-> o] : b, o \in MergeDicts}
    \cup {[fn |-> "_deep_merge", base |-> LawBase, override |-> LawOverride]}

\* Entries of the working set: with an identifier, with an empty one, with
\* none; meta is a nested mapping.
MergeEntries ==
    {[repo |-> r, stars |-> JsonNumber(1), meta |-> m] :
        r \in {RepoA, RepoB, ""},
        m \in {JsonObject([b |-> JsonNumber(1)]),
               JsonObject([b |-> JsonNumber(1), c |-> JsonNumber(9)])}}
    \cup {[stars |-> JsonNumber(1)]}

\* Overrides as load_overrides returns them: mappings, with or without an
\* identifier.
MergeOverrideItems ==
    {[repo |-> r, meta |-> m] :
        r \in {RepoA, RepoB, ""},
        m \in {JsonObject([b |-> JsonNumber(9)]), JsonNumber(9)}}
    \cup {[stars |-> JsonNumber(9)]}

\* Longest list of entries and of overrides.
MaxMerge == 2

ApplyOverridesInputs ==
    {[fn |-> "apply_overrides", entries |-> es, overrides |-> os, excluded |-> ex] :
        es \in SeqsUpTo(MergeEntries, MaxMerge),
        os \in SeqsUpTo(MergeOverrideItems, MaxMerge),
        ex \in SUBSET Repos}

InitMerge ==
    /\ ReqRest
    /\ SrRest
    /\ DcRest
    /\ RunRest
    /\ fn_in \in DeepMergeInputs \cup ApplyOverridesInputs
    /\ fn_out = NotCalled

\* One call of _deep_merge.
CallDeepMerge ==
    /\ ~fn_out.called
    /\ fn_in.fn = "_deep_merge"
    /\ LET h == HeapOf("base", fn_in.base, DictKeys(fn_in.base))
                @@ HeapOf("override", fn_in.override, DictKeys(fn_in.override))
           done == _deep_merge_refs(h, "base", "override", "merged")
       IN  fn_out' = [called |-> TRUE,
                      result |-> _deep_merge(fn_in.base, fn_in.override),
                      before |-> h, heap |-> done.heap, ref |-> done.ref]
    /\ UNCHANGED <<fn_in, reqVars, srVars, dcVars, runVars>>

\* One call of apply_overrides.
CallApplyOverrides ==
    /\ ~fn_out.called
    /\ fn_in.fn = "apply_overrides"
    /\ fn_out' = [called |-> TRUE,
                  result |-> apply_overrides(fn_in.entries, fn_in.overrides, fn_in.excluded)]
    /\ UNCHANGED <<fn_in, reqVars, srVars, dcVars, runVars>>

NextMerge == CallDeepMerge \/ CallApplyOverrides

SpecMerge == InitMerge /\ [][NextMerge]_vars

\* ---- _sort_entries over drawn entry lists

\* Entries with equal and with missing sort keys: the first two are equal in
\* lower-cased name and in stars, the first and the third in the update
\* marker, and the last two in every key, one lacking the keys, one holding
\* the values that "or" replaces.
SortEntries ==
    {[name |-> "Nord", repo |-> "a/one", stars |-> 2, updated_at |-> "2024-01-01T00:00:00Z"],
     [name |-> "nord", repo |-> "a/two", stars |-> 2, updated_at |-> "2024-01-02T00:00:00Z"],
     [name |-> "abc", repo |-> "a/three", stars |-> 1, updated_at |-> "2024-01-01T00:00:00Z"],
     [repo |-> "a/four"],
     [name |-> "", repo |-> "a/five", stars |-> 0, updated_at |-> ""]}

\* Longest list sorted.
MaxSort == 3

SortInputs ==
    [fn : {"_sort_entries"},
     entries : UNION {[1..n -> SortEntries] : n \in 0..MaxSort},
     config : [sort_by : {"stars", "updated_at", "name"}, sort_order : {"asc", "desc"}]]

InitSort ==
    /\ ReqRest
    /\ SrRest
    /\ DcRest
    /\ RunRest
    /\ fn_in \in SortInputs
    /\ fn_out = NotCalled

\* One call of _sort_entries.
CallSortEntries ==
    /\ ~fn_out.called
    /\ fn_in.fn = "_sort_entries"
    /\ fn_out' = [called |-> TRUE, result |-> _sort_entries(fn_in.entries, fn_in.config)]
    /\ UNCHANGED <<fn_in, reqVars, srVars, dcVars, runVars>>

NextSort == CallSortEntries

SpecSort == InitSort /\ [][NextSort]_vars

\* ---- extract_colorschemes and build_entry over drawn names and trees

\* Repository names: the one of the example, names with a suffix and with
\* separators, a generic name that falls back to the owner, and one of which
\* nothing is left.
ParseNames ==
    {RepoA, RepoB, "foo/my-theme.nvim", "bar/my_theme", "gruvbox/nvim", "a-b/vim.nvim", "/-"}

\* Items of a tree: colorscheme files with and without separators, one name
\* under both extensions, and paths and types that are no colorscheme file.
ParseItems ==
    {[type |-> "blob", path |-> "colors/gruvbox.vim"],
     [type |-> "blob", path |-> "colors/nord.lua"],
     [type |-> "blob", path |-> "colors/nord.vim"],
     [type |-> "blob", path |-> "colors/my_theme.vim"],
     [type |-> "blob", path |-> "colors/my-theme.lua"],
     [type |-> "blob", path |-> "colors/a-b.vim"],
     [type |-> "blob", path |-> "colors/a_c.lua"],
     [type |-> "blob", path |-> "colors/sub/deep.vim"],
     [type |-> "blob", path |-> "README.md"],
     [type |-> "tree", path |-> "colors/dir.vim"]}

\* Longest tree parsed.
MaxTree == 3

ParseInputs ==
    [fn : {"build_entry"},
     full_name : ParseNames,
     tree_items : UNION {[1..n -> ParseItems] : n \in 0..MaxTree}]

InitParse ==
    /\ ReqRest
    /\ SrRest
    /\ DcRest
    /\ RunRest
    /\ fn_in \in ParseInputs
    /\ fn_out = NotCalled

\* Lines 108-110 of runner.py: "colors = extract_colorschemes(tree_items)"
\* and "return build_entry(repo_payload, colors)".
CallBuildEntry ==
    /\ ~fn_out.called
    /\ fn_in.fn = "build_entry"
    /\ LET colors == extract_colorschemes(fn_in.tree_items)
       IN  fn_out' = [called |-> TRUE, colors |-> colors,
                      result |-> build_entry(RepoPayload(fn_in.full_name, "ok"), colors)]
    /\ UNCHANGED <<fn_in, reqVars, srVars, dcVars, runVars>>

NextParse == CallBuildEntry

SpecParse == InitParse /\ [][NextParse]_vars

(***************************************************************************)
(* Properties of _request_json (SpecReq)                                   *)
(***************************************************************************)

\* C2: a rate-limit response does not consume a retry slot: the attempts
\* used up are exactly the failures seen, so the call raises only after
\* retry_limit failures, and never because of rate-limit responses.
C2_RateLimitKeepsSlot ==
    /\ rqpc = "loop" => attempt = failSeen + 1
    /\ rqpc = "raised" => failSeen = retry_limit

\* C3: the call makes at most retry_limit attempts, raises only after
\* exactly retry_limit attempts, and whenever it raises the error carries
\* the description of the last failure that occurred.
C3_RaiseCarriesLastFailure ==
    /\ httpAttempts <= retry_limit
    /\ rqpc = "raised" =>
          /\ httpAttempts = retry_limit
          /\ lastFailure # NoneVal
          /\ rqresult = lastFailure

(***************************************************************************)
(* Properties of should_refresh (SpecRefresh)                              *)
(***************************************************************************)

Called == sr_in.repo # NoneVal

\* The record of the identifier of the call, when there is one.
SrHasRecord == \E i \in 1..Len(store) : store[i].repo = sr_in.repo
SrRecord == store[CHOOSE i \in 1..Len(store) : store[i].repo = sr_in.repo]

\* C7: should_refresh is true exactly when there is no record, or the stored
\* error is non-empty, or the discovered marker is non-empty and differs from
\* the stored one, or the last scan is at least staleAfterDays x 86400
\* seconds old.
C7_RefreshIff ==
    Called =>
        (sr_out <=>
            \/ ~SrHasRecord
            \/ SrRecord.parse_error \notin {NoneVal, ""}
            \/ sr_in.marker # "" /\ sr_in.marker # SrRecord.updated_at
            \/ now - SrRecord.scanned_at >= sr_in.days * 86400)

\* An error-free record with an equal or empty discovered marker, scanned
\* inside the window: the call answered false.
C7_Witness ==
    /\ Called
    /\ SrHasRecord
    /\ SrRecord.parse_error = NoneVal
    /\ sr_in.marker \in {"", SrRecord.updated_at}
    /\ now - SrRecord.scanned_at < sr_in.days * 86400
    /\ ~sr_out

\* C8: should_refresh is true when the identifier has no record, and true
\* when its record carries a non-empty error, whatever the marker and the
\* age of the scan.
C8_MissingOrErrorRefreshes ==
    Called =>
        /\ ~SrHasRecord => sr_out
        /\ SrHasRecord /\ SrRecord.parse_error \notin {NoneVal, ""} => sr_out

\* A record with an error, the same marker as discovered and a scan inside
\* the window: the call answered true.
C8_Witness ==
    /\ Called
    /\ SrHasRecord
    /\ SrRecord.parse_error \notin {NoneVal, ""}
    /\ sr_in.marker = SrRecord.updated_at
    /\ sr_in.marker # ""
    /\ now - SrRecord.scanned_at < sr_in.days * 86400
    /\ sr_out

(***************************************************************************)
(* Properties of the runs (Spec)                                           *)
(***************************************************************************)

StaleSeconds == Max(1, config.stale_after_days) * 24 * 60 * 60

\* A run has returned and nothing has happened since.
Returned == pc = "idle" /\ lastEnd = "returned"

\* The run before this one returned, and the hosting side and overrides.json
\* gave both runs the same answers.
SameInputsAsPrev ==
    /\ prev.valid
    /\ hist.sameUpstream
    /\ overridesFile = prev.overrides

\* Every record the run found in the store was scanned inside the window.
AllFresh == \A i \in 1..Len(hist.startStore) : now - hist.startStore[i].scanned_at < StaleSeconds

\* C1: of two consecutive runs with the same upstream answers, configuration
\* and overrides, the second inside the staleness window, the second makes no
\* live fetch and writes the same output as the first.
C1_Idempotence ==
    (Returned /\ prev.end = "returned" /\ SameInputsAsPrev /\ AllFresh) =>
        /\ liveFetched = {}
        /\ stats.fetched = 0
        /\ output = prev.output

Failed(r) == outcome[r] \in {"rejected", "failed"}

\* The identifiers the refresh loop has gone through in this run.
Processed == {discovered[i].key : i \in 1..(idx - 1)}

C5_ExcludedAbsent ==
    Returned =>
        \A i \in 1..Len(output.entries) :
            HasRepoKey(output.entries[i]) => output.entries[i].repo \notin overridesFile.excluded

StoreRows(st) == {st[i] : i \in 1..Len(st)}

\* The record of r was scanned inside the window when this run started.
FreshAtStart(r) ==
    /\ HasRow(hist.startStore, r)
    /\ now - read_repo(hist.startStore, r).scanned_at < StaleSeconds

\* C6: whatever the point at which a run is terminated, every record is its
\* value from before the run or the complete value of one upsert of the run;
\* and the run after a terminated one, with unchanged upstream and inside
\* the window, does not fetch again what the terminated run had fetched.
C6_CrashSafeResume ==
    /\ StoreRows(store) \subseteq StoreRows(hist.startStore) \cup hist.upserts
    /\ \A r \in Repos :
          (/\ prev.valid
           /\ prev.end = "killed"
           /\ prev.outcome[r] = "fetched"
           /\ hist.sameUpstream
           /\ FreshAtStart(r)) => r \notin liveFetched

\* The marker r is discovered with in this run is the one of its record.
SameMarkerAtStart(r) ==
    /\ DictHas(discovered, r)
    /\ HasRow(hist.startStore, r)
    /\ DictGet(discovered, r) = read_repo(hist.startStore, r).updated_at

C10_ErrorForcesRefetch ==
    \A r \in Repos :
        /\ Failed(r) => HasRow(store, r) /\ read_repo(store, r).parse_error \notin {NoneVal, ""}
        /\ (prev.last[r] \in {"rejected", "failed"} /\ outcome[r] # "none") =>
              /\ outcome[r] # "cached"
              /\ r \in liveFetched

\* An identifier that failed, discovered by the next run with another marker,
\* no time to speak of having passed, and fetched again; and one discovered
\* with the same marker.
C10_Witness ==
    \E r \in Repos :
        /\ prev.last[r] = "failed"
        /\ FreshAtStart(r)
        /\ DictHas(discovered, r)
        /\ DictGet(discovered, r) # read_repo(hist.startStore, r).updated_at
        /\ r \in liveFetched

(***************************************************************************)
(* Properties of the pacing clock (SpecPace) and of a 404 (SpecReq)        *)
(***************************************************************************)

\* The step is an HTTP attempt.
AttemptStep == httpAttempts' = httpAttempts + 1

\* C11: every attempt of an instance, whatever the method that makes it and
\* whether it is a first attempt or a retry, starts at least request_delay
\* after the previous attempt of that instance and not before the instance's
\* _next_request_time; an attempt changes the pacing clock of its own
\* instance only, and an instance that has made no attempt has its clock at 0.
C11_Pacing ==
    /\ [](\A c \in Clients : pace[c].last = -1 => next_request_time[c] = 0)
    /\ [][/\ AttemptStep =>
                /\ pace'[client].last >= next_request_time[client]
                /\ pace[client].last >= 0 =>
                      pace'[client].last - pace[client].last >= request_delay
                /\ \A d \in Clients \ {client} :
                      next_request_time'[d] = next_request_time[d]
          /\ ~AttemptStep => next_request_time' = next_request_time]_vars

\* An instance about to make the first attempt of a call through another
\* method than its previous attempt, before its pacing clock allows it, while
\* the other instance's clock stands elsewhere.
C11_Witness ==
    \E c \in Clients :
        /\ client = c
        /\ rqpc = "loop"
        /\ attempt = 1
        /\ request_delay > 0
        /\ pace[c].last >= 0
        /\ pace[c].lastEp # endpoint
        /\ clock < next_request_time[c]
        /\ \E d \in Clients \ {c} : next_request_time[d] # next_request_time[c]

\* What each method returns when the request returned None.
AbsentReturn(ep) ==
    CASE ep = "search" -> [results |-> <<>>, has_next |-> FALSE]
      [] ep = "repo" -> JsonNone
      [] OTHER -> <<>>

\* C12: a 404 on any attempt ends the call at once with None: no attempt
\* follows, nothing is slept, nothing is raised, and the method that made
\* the call returns absent / an empty list / (empty, no more pages).
C12_NotFoundReturnsAbsent ==
    lastResp = "404" =>
        /\ rqpc = "returned"
        /\ rqresult = JsonNone
        /\ sleptAfter = 0
        /\ epresult = AbsentReturn(endpoint)

\* A 404 on the second attempt, with an attempt left.
C12_Witness ==
    /\ lastResp = "404"
    /\ httpAttempts = 2
    /\ retry_limit = 3
    /\ endpoint = "tree"

(***************************************************************************)
(* Properties of discovery (SpecDiscover)                                  *)
(***************************************************************************)

\* discover_repositories was called and returned its dict.
Discovered == dc_out.called /\ dc_out.result.error = NoneVal

\* The raw items of the page the upstream answers with (none when the body
\* is not an object with a list of items).
PageItems(t, p) ==
    LET answer == SearchAnswer(dc_in.up, t, p, dc_in.cfg.per_page)
    IN  IF answer.raised \/ answer.payload.json # "object" THEN <<>>
        ELSE IF GetOr(answer.payload.value, "items", JsonNone).json # "array" THEN <<>>
        ELSE answer.payload.value.items.value

\* An item discovery can use: an object with a non-empty name.
Usable(item) ==
    item.json = "object" /\ GetOr(item.value, "full_name", NoneVal) \notin {NoneVal, ""}

\* The page ends the pagination of its topic: it holds nothing to use, it is
\* shorter than per_page, or it is the last one the cap allows.
EndsPagination(t, p) ==
    \/ \A i \in 1..Len(PageItems(t, p)) : ~Usable(PageItems(t, p)[i])
    \/ Len(PageItems(t, p)) < dc_in.cfg.per_page
    \/ dc_in.cfg.max_pages_per_topic # 0 /\ p >= dc_in.cfg.max_pages_per_topic

\* The pages requested for a topic, in the order of the requests.
PagesAsked(t) ==
    LET mine == SelectSeq(dc_out.result.log, LAMBDA rq : rq[1] = t)
    IN  [i \in 1..Len(mine) |-> mine[i][2]]

TopicIndex(t) == CHOOSE i \in 1..Len(dc_in.cfg.topics) : dc_in.cfg.topics[i] = t

\* C19: for each topic the pages 1, 2, ... are requested in order up to and
\* including the first page that is empty, shorter than per_page or at the
\* page cap, and none after it; topics are gone through in configured order.
\* For pages of 100, 100 and 40 items there are exactly three requests and
\* no more than 240 identifiers.
C19_PaginationEnd ==
    Discovered =>
        /\ \A n \in 1..Len(dc_in.cfg.topics) :
              LET t == dc_in.cfg.topics[n]
                  asked == PagesAsked(t)
              IN  /\ Len(asked) >= 1
                  /\ \A i \in 1..Len(asked) : asked[i] = i
                  /\ EndsPagination(t, Len(asked))
                  /\ \A p \in 1..(Len(asked) - 1) : ~EndsPagination(t, p)
        /\ \A i, j \in 1..Len(dc_out.result.log) :
              i < j => TopicIndex(dc_out.result.log[i][1]) <= TopicIndex(dc_out.result.log[j][1])
        /\ dc_in = BigInput =>
              /\ Len(dc_out.result.log) = 3
              /\ Len(dc_out.result.found) <= 240

\* The 100, 100, 40 scenario has run: three requests, 240 identifiers.
C19_Witness ==
    /\ Discovered
    /\ dc_in = BigInput
    /\ dc_out.result.log = <<<<"neovim-colorscheme", 1>>, <<"neovim-colorscheme", 2>>,
                             <<"neovim-colorscheme", 3>>>>
    /\ Len(dc_out.result.found) = 240

\* The identifiers and markers seen, in request order: topics in configured
\* order, pages ascending, items in page order.
RECURSIVE Occurrences(_)
Occurrences(log) ==
    IF Len(log) = 0 THEN <<>>
    ELSE LET items == SelectSeq(PageItems(Head(log)[1], Head(log)[2]), Usable)
             seen == [i \in 1..Len(items) |->
                         [id |-> _safe_repo(items[i].value.full_name),
                          marker |-> LET u == GetOr(items[i].value, "updated_at", "")
                                     IN  IF u = NoneVal THEN "" ELSE u]]
         IN  SelectSeq(seen, LAMBDA o : o.id # "") \o Occurrences(Tail(log))

\* C20: the dict holds each identifier once, the identifiers are those seen in
\* the pages and those of the include list, and the marker of an identifier
\* seen in the pages is the one of its first occurrence in request order
\* (the empty marker for an identifier only the include list names).
C20_FirstSeenWins ==
    Discovered =>
        LET found == dc_out.result.found
            occ == Occurrences(dc_out.result.log)
            ids == {occ[i].id : i \in 1..Len(occ)}
            included == {_safe_repo(dc_in.cfg.include_repos[i]) :
                            i \in 1..Len(dc_in.cfg.include_repos)} \ {""}
            First(id) == CHOOSE i \in 1..Len(occ) :
                            /\ occ[i].id = id
                            /\ \A j \in 1..(i - 1) : occ[j].id # id
        IN  /\ \A i, j \in 1..Len(found) : found[i].key = found[j].key => i = j
            /\ {found[i].key : i \in 1..Len(found)} = ids \cup included
            /\ \A id \in ids : DictGet(found, id) = occ[First(id)].marker
            /\ \A id \in included \ ids : DictGet(found, id) = ""

\* An identifier seen on a page of the first topic comes back on a later page
\* under another marker and on the second topic, and the include list names
\* an identifier the pages hold as well.
C20_Witness ==
    /\ Discovered
    /\ dc_in # BigInput
    /\ LET occ == Occurrences(dc_out.result.log)
       IN  /\ \E i, j \in 1..Len(occ) :
                 i < j /\ occ[i].id = RepoA /\ occ[j].id = RepoA /\ occ[i].marker # occ[j].marker
           /\ \E i \in 1..Len(occ) : occ[i].id = RepoB
    /\ \E i, j \in 1..Len(dc_out.result.log) :
          dc_out.result.log[i][1] # dc_out.result.log[j][1]

(***************************************************************************)
(* Properties of run_once: artifacts, failures, the store (Spec)          *)
(***************************************************************************)

\* The latest run left run_once by an exception.
RaisedRun == pc = "idle" /\ lastEnd = "raised"

\* C13: a run that leaves by an exception from discovery, from the refresh
\* loop or from the loading of the overrides leaves the output file and the
\* manifest as they were before the run.
C13_ArtifactsOnlyAtEnd ==
    (RaisedRun /\ runlog.phase \in {"discovery", "refresh", "overrides"}) =>
        /\ output = prev.output
        /\ manifest = runlog.startManifest
        /\ runlog.writes = <<>>

\* A second run is left from the refresh loop after the first has written
\* both files.
C13_Witness ==
    /\ RaisedRun
    /\ runlog.phase = "refresh"
    /\ runs = 2
    /\ prev.end = "returned"
    /\ output.written
    /\ manifest.written

\* C14: a run whose search request fails leaves run_once by the exception
\* of discovery: nothing is fetched, no record is written or changed, and no
\* counters are returned.
C14_DiscoveryFailureAborts ==
    (runs >= 1 /\ runlog.searchFailed) =>
        /\ RaisedRun
        /\ runlog.phase = "discovery"
        /\ liveFetched = {}
        /\ outcome = NoOutcome
        /\ store = hist.startStore
        /\ hist.upserts = {}
        /\ runlog.returned = NoneVal

\* The search fails in a second run, over a cache the first run filled.
C14_Witness ==
    /\ runs = 2
    /\ runlog.searchFailed
    /\ RaisedRun
    /\ prev.end = "returned"
    /\ Len(store) > 0

\* C15: a run in which a cache write has failed has left run_once by that
\* exception: the identifier is not counted as an error, no identifier after
\* it is processed, and neither file is written.
C15_UpsertFailurePropagates ==
    (runlog.upsertFailed # {}) =>
        /\ RaisedRun
        /\ runlog.phase = "refresh"
        /\ runlog.absorbed = {}
        /\ output = prev.output
        /\ manifest = runlog.startManifest

\* C16: the store is opened once in a run, no method of it is called after
\* its close, it is not closed while the run goes on, and it has been closed
\* exactly once when run_once has returned or has left by an exception.
C16_StoreClosedOnce ==
    runs >= 1 =>
        /\ runlog.opens = 1
        /\ runlog.late = 0
        /\ lastEnd = "running" => runlog.closes = 0
        /\ lastEnd \in {"returned", "raised"} => runlog.closes = 1

\* A run is left by the exception of a failed write of the manifest.
C16_Witness ==
    /\ RaisedRun
    /\ runlog.phase = "manifest"
    /\ runlog.closes = 1
    /\ runlog.opens = 1

\* C17: when run_once has returned, the manifest holds the SHA-256 of the
\* bytes of the output file of that run, its entries field is the number of
\* entries of that file and the written counter returned, and the manifest
\* was written after the output file.
C17_ManifestIntegrity ==
    (pc = "idle" /\ lastEnd = "returned") =>
        /\ output.raw = _write_json(output.entries)
        /\ manifest.written
        /\ manifest.payload.sha256 = Sha256(output.raw)
        /\ manifest.payload.entries = Len(output.entries)
        /\ manifest.payload.entries = runlog.returned.written
        /\ runlog.writes = <<"output", "manifest">>

\* A second run returns with an output that differs from the one before.
C17_Witness ==
    /\ pc = "idle"
    /\ lastEnd = "returned"
    /\ runs = 2
    /\ prev.end = "returned"
    /\ output # prev.output
    /\ Len(output.entries) >= 1
    /\ manifest # runlog.startManifest

\* The record of r carries an error.
ErrorRow(r) == \E i \in 1..Len(store) : store[i].repo = r /\ store[i].parse_error # NoneVal

\* An override of the overrides file names r.
Overridden(r) ==
    \E i \in 1..Len(overridesFile.overrides) :
        /\ HasRepoKey(overridesFile.overrides[i])
        /\ overridesFile.overrides[i].repo = r

\* The written output has an entry for r.
InOutput(r) ==
    \E i \in 1..Len(output.entries) :
        HasRepoKey(output.entries[i]) /\ output.entries[i].repo = r

\* C18: when a run has returned, an identifier whose record carries an error,
\* or whose live fetch failed or was rejected in the run, has no entry in
\* the output (an entry that an override creates apart). Behaviours with a
\* failure of the store or of the file system are left out.
C18_FailureNotOutput ==
    (pc = "idle" /\ lastEnd = "returned" /\ runlog.faults = 0) =>
        \A r \in Repos :
            ((ErrorRow(r) \/ outcome[r] \in {"failed", "rejected"}) /\ ~Overridden(r)) =>
                ~InOutput(r)

(***************************************************************************)
(* Properties of the include list, the merge and the sort                  *)
(***************************************************************************)

\* The identifiers of config.include_repos, normalised.
IncludeIds ==
    {_safe_repo(config.include_repos[i]) : i \in 1..Len(config.include_repos)} \ {""}

\* C21: while a run goes on and when it has returned, every identifier of
\* the include list is in the discovery dict with the empty marker, and one
\* that was fetched live in the run had no record, a record with an error or
\* a stale record when the run started.
C21_IncludeEmptyMarker ==
    lastEnd \in {"running", "returned"} =>
        \A r \in IncludeIds :
            /\ pc = "refresh" => (DictHas(discovered, r) /\ DictGet(discovered, r) = "")
            /\ r \in liveFetched =>
                  \/ ~HasRow(hist.startStore, r)
                  \/ HasError(read_repo(hist.startStore, r))
                  \/ ~FreshAtStart(r)

\* A call of fn has been made.
FnCalled(fn) == fn_out.called /\ fn_in.fn = fn

\* The identifiers that entries with a usable "repo" carry.
RepoIdsOf(items) == {items[i].repo : i \in {j \in 1..Len(items) : HasRepoKey(items[j])}}

\* The entry the index holds for r: the last of the entries that carry r.
LastEntryOf(entries, r) ==
    entries[CHOOSE i \in 1..Len(entries) :
                /\ HasRepoKey(entries[i]) /\ entries[i].repo = r
                /\ \A j \in (i + 1)..Len(entries) :
                      ~(HasRepoKey(entries[j]) /\ entries[j].repo = r)]

\* The overrides that name r, merged in file order onto base.
RECURSIVE MergedInOrder(_, _, _)
MergedInOrder(base, overrides, r) ==
    IF Len(overrides) = 0 THEN base
    ELSE MergedInOrder(IF HasRepoKey(Head(overrides)) /\ Head(overrides).repo = r
                       THEN _deep_merge(base, Head(overrides))
                       ELSE base,
                       Tail(overrides), r)

RECURSIVE DeepMergeLaw(_, _, _)
DeepMergeLaw(base, override, merged) ==
    /\ DOMAIN merged = DOMAIN base \cup DOMAIN override
    /\ \A k \in DOMAIN base \ DOMAIN override : merged[k] = base[k]
    /\ \A k \in DOMAIN override :
          IF k \in DOMAIN base /\ override[k].json = "object" /\ base[k].json = "object"
          THEN /\ merged[k].json = "object"
               /\ DeepMergeLaw(base[k].value, override[k].value, merged[k].value)
          ELSE merged[k] = override[k]

\* C23: _deep_merge keeps the keys of the base that the override lacks,
\* merges key by key where both values are mappings, and takes the value of
\* the override everywhere else (a list replaces a list); {a: {b: 9}} onto
\* {a: {b: 1, c: 2}} gives {a: {b: 9, c: 2}}; merging the override again
\* changes nothing; and no dict object that existed before the call, the
\* base and the mappings in it among them, is written to: the object
\* returned is a new one that stands for the merge.
C23_DeepMergeLaw ==
    FnCalled("_deep_merge") =>
        /\ DeepMergeLaw(fn_in.base, fn_in.override, fn_out.result)
        /\ \A id \in DOMAIN fn_out.before : fn_out.heap[id] = fn_out.before[id]
        /\ fn_out.ref \notin DOMAIN fn_out.before
        /\ Deref(fn_out.heap, fn_out.ref) = fn_out.result
        /\ Deref(fn_out.heap, "base") = fn_in.base
        /\ _deep_merge(fn_out.result, fn_in.override) = fn_out.result
        /\ (fn_in.base = LawBase /\ fn_in.override = LawOverride) =>
              fn_out.result = [a |-> JsonObject([b |-> JsonNumber(9), c |-> JsonNumber(2)])]

\* A merge two levels down beside a list that replaces a list.
C23_Witness ==
    /\ FnCalled("_deep_merge")
    /\ fn_in.base = [a |-> JsonObject([b |-> JsonNumber(1),
                                       c |-> JsonObject([d |-> JsonNumber(1)])]),
                     s |-> JsonArray(<<1, 2>>)]
    /\ fn_in.override = [a |-> JsonObject([c |-> JsonObject([d |-> JsonNumber(9)])]),
                         s |-> JsonNumber(1)]
    /\ fn_out.result = [a |-> JsonObject([b |-> JsonNumber(1),
                                          c |-> JsonObject([d |-> JsonNumber(9)])]),
                        s |-> JsonNumber(1)]

\* The one-to-one maps of 1..n onto itself.
Reorderings(n) == {p \in [1..n -> 1..n] : \A i, j \in 1..n : p[i] = p[j] => i = j}

\* C24: _sort_entries returns a permutation of its input ordered by the
\* configured key (stars, update marker or lower-cased name): never
\* increasing under "desc", never decreasing under "asc", and entries with
\* equal keys in the order they had in the input, in both directions.
C24_SortStable ==
    FnCalled("_sort_entries") =>
        LET entries == fn_in.entries
            sorted == fn_out.result
            by == fn_in.config.sort_by
        IN  /\ Len(sorted) = Len(entries)
            /\ \E p \in Reorderings(Len(entries)) :
                  /\ \A i \in 1..Len(sorted) : sorted[i] = entries[p[i]]
                  /\ \A i, j \in 1..Len(sorted) :
                        i < j =>
                            /\ IF fn_in.config.sort_order = "desc"
                               THEN ~KeyLess(sorted[i], sorted[j], by)
                               ELSE ~KeyLess(sorted[j], sorted[i], by)
                            /\ (~KeyLess(sorted[i], sorted[j], by) /\ ~KeyLess(sorted[j], sorted[i], by))
                                  => p[i] < p[j]

\* A descending sort by stars of three entries, the two with the most stars
\* equal in stars and behind the third in the input: they come first, in
\* their input order.
C24_Witness ==
    /\ FnCalled("_sort_entries")
    /\ fn_in.config = [sort_by |-> "stars", sort_order |-> "desc"]
    /\ Len(fn_in.entries) = 3
    /\ fn_in.entries[1].repo = "a/three"
    /\ fn_in.entries[2].repo = "a/one"
    /\ fn_in.entries[3].repo = "a/two"
    /\ fn_out.result = <<fn_in.entries[2], fn_in.entries[3], fn_in.entries[1]>>

(***************************************************************************)
(* Properties of the filters, the parser and the store                     *)
(***************************************************************************)

\* The metadata of repo is fetched and a filter of _build_entry_for_repo
\* rejects it: stars below min_stars, archived with skip_archived, disabled
\* with skip_disabled.
Rejects(repo) ==
    LET repo_payload == RepoPayload(repo, upstream.meta[repo])
    IN  /\ upstream.meta[repo] \notin {"fail", "absent"}
        /\ \/ repo_payload.stargazers_count < config.min_stars
           \/ config.skip_archived /\ repo_payload.archived
           \/ config.skip_disabled /\ repo_payload.disabled

RejectionTexts ==
    {"repository archived", "repository disabled"}
    \cup {BelowMinStarsText(stars, config.min_stars) : stars \in 0..config.min_stars}

\* C25: an iteration of the refresh loop that fetches the metadata of an
\* identifier and finds it archived with skip_archived set (or disabled with
\* skip_disabled, or below min_stars) adds exactly one to the error count,
\* leaves the fetched and the cached counts alone, asks for no tree of the
\* identifier and stores an error record for it, the store taking the write.
C25_FilterRejection ==
    [][(/\ pc = "refresh"
        /\ idx <= Len(discovered)
        /\ idx' = idx + 1
        /\ runlog'.faults = runlog.faults
        /\ should_refresh(store, discovered[idx].key, discovered[idx].value,
                          config.stale_after_days, now)
        /\ Rejects(discovered[idx].key))
       => LET repo == discovered[idx].key
          IN  /\ stats'.errors = stats.errors + 1
              /\ stats'.fetched = stats.fetched
              /\ stats'.cached = stats.cached
              /\ repo \notin hist'.trees
              /\ HasRow(store', repo)
              /\ read_repo(store', repo).parse_error \in RejectionTexts
              /\ read_repo(store', repo).scanned_at = now]_vars

\* An archived repository has been rejected in a run that had fetched
\* another one before it.
C25_Witness ==
    /\ pc = "refresh"
    /\ \E r \in Repos :
          /\ outcome[r] = "rejected"
          /\ upstream.meta[r] = "archived"
          /\ r \notin hist.trees
          /\ HasRow(store, r)
          /\ read_repo(store, r).parse_error = "repository archived"
    /\ stats.errors = 1
    /\ stats.fetched = 1

\* The variants of an entry: the list under "variants", none without the key.
VariantsOf(entry) == IF "variants" \in DOMAIN entry THEN entry.variants ELSE <<>>

\* C26: the colorschemes of a tree are sorted and without repetition; the
\* base is the first of them equal to the derived name, to the name with
\* "_" for "-" or to the name with "-" for "_"; without such a one the first
\* with neither "-" nor "_"; without such a one the first of the list; the
\* other colorschemes, in order, are the variants. For colors/gruvbox.vim
\* and colors/nord.lua in acme/mytheme.nvim the name is mytheme, the base is
\* gruvbox and the only variant is nord.
C26_BaseSelection ==
    FnCalled("build_entry") =>
        LET colors == fn_out.colors
            entry == fn_out.result
            base == entry.colorscheme
            forms == {entry.name, Replace(entry.name, "-", "_"), Replace(entry.name, "_", "-")}
            Named(c) == c \in forms
            Plain(c) == ~Contains(c, "-") /\ ~Contains(c, "_")
            FirstWith(P(_)) ==
                \E i \in 1..Len(colors) :
                    /\ colors[i] = base
                    /\ P(base)
                    /\ \A j \in 1..(i - 1) : ~P(colors[j])
            SomeWith(P(_)) == \E i \in 1..Len(colors) : P(colors[i])
        IN  /\ \A i, j \in 1..Len(colors) : i < j => StrLess(colors[i], colors[j])
            /\ Len(colors) = 0 => (base = entry.name /\ VariantsOf(entry) = <<>>)
            /\ Len(colors) > 0 =>
                  /\ IF SomeWith(Named) THEN FirstWith(Named)
                     ELSE IF SomeWith(Plain) THEN FirstWith(Plain)
                     ELSE base = colors[1]
                  /\ Len(VariantsOf(entry)) = Len(colors) - 1
                  /\ \A i \in 1..Len(VariantsOf(entry)) :
                        LET c == colors[IF StrLess(colors[i], base) THEN i ELSE i + 1]
                        IN  VariantsOf(entry)[i] = [name |-> c, colorscheme |-> c]
            /\ (fn_in.full_name = RepoA
                /\ fn_in.tree_items = <<[type |-> "blob", path |-> "colors/gruvbox.vim"],
                                        [type |-> "blob", path |-> "colors/nord.lua"]>>)
                  => /\ entry.name = "mytheme"
                     /\ base = "gruvbox"
                     /\ VariantsOf(entry) = <<[name |-> "nord", colorscheme |-> "nord"]>>

\* The base is the underscore form of the derived name although a
\* colorscheme without separators comes before it in the list.
C26_Witness ==
    /\ FnCalled("build_entry")
    /\ fn_out.result.name = "my-theme"
    /\ fn_out.colors = <<"gruvbox", "my_theme">>
    /\ fn_out.result.colorscheme = "my_theme"

\* C27: an entry of build_entry has a name that is not empty, variant
\* identifiers that differ from one another and from the base, and the key
\* "variants" only with at least one variant under it, whatever the name of
\* the repository and the tree.
C27_EntryWellFormed ==
    FnCalled("build_entry") =>
        LET entry == fn_out.result
            variants == VariantsOf(entry)
        IN  /\ entry.name # ""
            /\ \A i, j \in 1..Len(variants) :
                  i # j => /\ variants[i].name # variants[j].name
                           /\ variants[i].colorscheme # variants[j].colorscheme
            /\ \A i \in 1..Len(variants) :
                  /\ variants[i].name # entry.colorscheme
                  /\ variants[i].colorscheme # entry.colorscheme
            /\ "variants" \in DOMAIN entry => Len(entry.variants) >= 1

\* A repository name of which nothing is left, and a tree that names one
\* colorscheme under both extensions beside another one.
C27_Witness ==
    /\ FnCalled("build_entry")
    /\ fn_in.full_name = "/-"
    /\ fn_out.result.name = "theme"
    /\ fn_in.tree_items = <<[type |-> "blob", path |-> "colors/nord.vim"],
                            [type |-> "blob", path |-> "colors/nord.lua"],
                            [type |-> "blob", path |-> "colors/a-b.vim"]>>
    /\ Len(VariantsOf(fn_out.result)) = 1

\* The row of repo in the table.
RowOf(st, repo) == st[RowIndex(st, repo)]

\* C28: the table holds at most one row per identifier; no step of a run
\* removes a row; a step that changes the table is the upsert of the
\* identifier the refresh loop is at: its row is inserted, or replaced with
\* marker, scanned_at, payload and error of the one upsert (an entry with its
\* own marker and no error, or the error placeholder with the discovered
\* marker and the error text), and every other row is left as it was.
C28_OneRowPerRepo ==
    [][/\ \A i, j \in 1..Len(store') : store'[i].repo = store'[j].repo => i = j
       /\ \A r \in Repos : HasRow(store, r) => HasRow(store', r)
       /\ store' # store =>
             /\ pc = "refresh"
             /\ idx <= Len(discovered)
             /\ LET repo == discovered[idx].key
                    row == RowOf(store', repo)
                IN  /\ HasRow(store', repo)
                    /\ Len(store') = Len(store) + (IF HasRow(store, repo) THEN 0 ELSE 1)
                    /\ \A q \in Repos \ {repo} :
                          /\ HasRow(store', q) = HasRow(store, q)
                          /\ HasRow(store, q) => RowOf(store', q) = RowOf(store, q)
                    /\ row.scanned_at = now
                    /\ row \in hist'.upserts
                    /\ IF row.parse_error = NoneVal
                       THEN /\ JsonLoads(row.payload_json).repo = repo
                            /\ "name" \in DOMAIN JsonLoads(row.payload_json)
                            /\ row.updated_at = JsonLoads(row.payload_json).updated_at
                       ELSE /\ JsonLoads(row.payload_json) = ErrorPayload(repo)
                            /\ row.updated_at = discovered[idx].value
                            /\ row.parse_error # ""]_vars

\* Two rows, the first of them written by an earlier run as an entry and now
\* replaced by an error record, the second as the earlier run left it.
C28_Witness ==
    /\ Len(store) = 2
    /\ Len(hist.startStore) = 2
    /\ hist.startStore[1].parse_error = NoneVal
    /\ store[1].repo = hist.startStore[1].repo
    /\ store[1].parse_error # NoneVal
    /\ store[1].scanned_at > hist.startStore[1].scanned_at
    /\ store[2] = hist.startStore[2]

(***************************************************************************)
(* Properties of the backoff (SpecBackoff) and of the artifact pair        *)
(***************************************************************************)

\* What lastResp holds after an attempt that failed: an HTTP error that is
\* neither a 404 nor a rate limit, or a transport error.
FailureClasses == {"500", "exc"}

\* C29: after the failed attempt k of a request the client sleeps
\* min(60, 2^(k-1)) seconds when k < retry_limit and goes on to attempt
\* k + 1, and does not sleep when k = retry_limit; the sleep is at most 60
\* seconds for every retry_limit up to 10.
C29_BackoffSleep ==
    [][(rqpc = "loop" /\ lastResp' \in FailureClasses)
       => LET k == attempt
              slept == clock' - clock
          IN  /\ k \in 1..retry_limit
              /\ k < retry_limit =>
                    /\ slept = (IF 2 ^ (k - 1) < 60 THEN 2 ^ (k - 1) ELSE 60)
                    /\ attempt' = k + 1
                    /\ rqpc' = "loop"
              /\ k = retry_limit => (slept = 0 /\ rqpc' = "raised")
              /\ slept <= 60
              /\ sleptAfter' = slept]_vars

\* With retry_limit 10 the seventh attempt has failed and the client has
\* slept the 60 seconds of the cap, 2^6 being 64.
C29_Witness ==
    /\ retry_limit = MaxBackoffRetry
    /\ rqpc = "loop"
    /\ attempt = 8
    /\ lastResp \in FailureClasses
    /\ failSeen = 7
    /\ sleptAfter = 60
    /\ clock = 1 + 2 + 4 + 8 + 16 + 32 + 60

\* C30: whenever no run is under way (none started yet, or the last one has
\* returned, raised or been terminated) and both files are on disk, each
\* written to its end, the manifest holds the SHA-256 of the bytes of the
\* output file.
C30_ArtifactPair ==
    (/\ pc = "idle"
     /\ manifest.written
     /\ manifest.payload # NoPayload
     /\ output.written
     /\ output.raw = _write_json(output.entries)) =>
        manifest.payload.sha256 = Sha256(output.raw)

(***************************************************************************)
(* Further properties of _request_json and of the runs                     *)
(***************************************************************************)

\* C31: a call of _request_json sends at most retry_limit requests whatever
\* the answers are (successes, 404, rate-limit signals, other failures): as
\* long as it is in its loop it has sent fewer, each answer either ends the
\* call or takes the next value of the loop variable, and with the
\* retry_limit-th answer at the latest the call has returned a value or
\* raised GitHubRequestError with a message.
C31_BoundedAttempts ==
    /\ httpAttempts <= retry_limit
    /\ rqpc \in {"loop", "returned", "raised"}
    /\ rqpc = "loop" => (attempt <= retry_limit /\ httpAttempts = attempt - 1)
    /\ httpAttempts = retry_limit => rqpc \in {"returned", "raised"}
    /\ rqpc = "raised" => rqresult = RaiseText(last_error)
    /\ rqpc = "returned" => httpAttempts = attempt

\* Three rate-limit signals with retry_limit 3: the call has ended.
C31_Witness ==
    /\ retry_limit = MaxRetry
    /\ rlSeen = MaxRetry
    /\ httpAttempts = MaxRetry
    /\ rqpc = "raised"

\* The identifiers of the run with one of the outcomes.
WithOutcome(kinds) == {r \in Repos : outcome[r] \in kinds}

\* C32: when run_once returns, starting from a table that only runs have
\* written, discovered = fetched + cached + errors: every identifier
\* discovered has been counted in exactly one of the three counters.
C32_CountAccounting ==
    Returned =>
        LET counts == runlog.returned
        IN  /\ counts.discovered = counts.fetched + counts.cached + counts.errors
            /\ counts.discovered = Len(discovered)
            /\ WithOutcome({"fetched", "cached", "rejected", "failed"})
                  = {discovered[i].key : i \in 1..Len(discovered)}
            /\ counts.fetched = Cardinality(WithOutcome({"fetched"}))
            /\ counts.cached = Cardinality(WithOutcome({"cached"}))
            /\ counts.errors = Cardinality(WithOutcome({"rejected", "failed"}))

\* A second run has returned with one identifier served from the table and
\* one that failed.
C32_Witness ==
    /\ Returned
    /\ runs = 2
    /\ runlog.returned.discovered = 2
    /\ runlog.returned.cached = 1
    /\ runlog.returned.errors = 1
    /\ runlog.returned.fetched = 0

\* C33: in a run, an identifier discovered with a non-empty marker m and
\* fetched with success has m as the marker of its row, so that
\* should_refresh with m answers false for it inside the staleness window,
\* whatever markers the search and the metadata carry for the repository.
C33_StoredMarkerIsDiscovered ==
    pc = "refresh" =>
        \A i \in 1..Len(discovered) :
            LET repo == discovered[i].key
                m == discovered[i].value
            IN  (i < idx /\ outcome[repo] = "fetched" /\ m # "") =>
                    /\ RowOf(store, repo).updated_at = m
                    /\ ~should_refresh(store, repo, m, config.stale_after_days, now)

\* C34: an iteration of the refresh loop for which should_refresh answers
\* false sends no request for the identifier and leaves the table as it is,
\* the row of the identifier with its marker, scanned_at, payload and error
\* included; the scanned_at of a row changes only in a step that attempts a
\* live fetch of its identifier; and an identifier that is discovered when
\* stale_after_days have passed since its scanned_at is fetched live.
C34_CachedPathReadOnly ==
    [][/\ (pc = "refresh" /\ idx <= Len(discovered) /\ idx' = idx + 1) =>
             LET repo == discovered[idx].key
                 m == discovered[idx].value
             IN  /\ ~should_refresh(store, repo, m, config.stale_after_days, now) =>
                       /\ store' = store
                       /\ liveFetched' = liveFetched
                       /\ repo \notin liveFetched'
                       /\ hist'.trees = hist.trees
                       /\ hist'.upserts = hist.upserts
                       /\ stats'.cached = stats.cached + 1
                       /\ DictGet(entries_by_repo', repo) = read_repo(store, repo).payload
                 /\ (HasRow(store, repo)
                     /\ now - RowOf(store, repo).scanned_at >= StaleSeconds) =>
                       repo \in liveFetched'
       /\ \A q \in Repos :
             (HasRow(store, q) /\ RowOf(store', q).scanned_at # RowOf(store, q).scanned_at) =>
                 /\ q \in liveFetched'
                 /\ q \notin liveFetched
                 /\ RowOf(store', q).scanned_at = now]_vars

\* In a second run one identifier has been served from the table, its row
\* being the one the run found, and another, whose row the run found too,
\* has been fetched live.
C34_Witness ==
    /\ pc = "refresh"
    /\ runs = 2
    /\ \E r, q \in Repos :
          /\ outcome[r] = "cached"
          /\ r \notin liveFetched
          /\ RowOf(store, r) = RowOf(hist.startStore, r)
          /\ q # r
          /\ HasRow(hist.startStore, q)
          /\ q \in liveFetched
          /\ RowOf(store, q).scanned_at = now

\* The reset headers that are integers, and their values.
ResetSeconds == ("0" :> 0) @@ ("3" :> 3) @@ (" 5" :> 5)

\* C35: an answer is a rate-limit signal only when its status is 403, its
\* remaining-quota header is "0" and its reset header is not empty; the
\* client then sleeps max(1, reset - now + 1) seconds, 60 when the reset
\* header is no integer, and no backoff on top, and records no failure; a
\* 404 returns; every other HTTP error is a failure that is recorded and
\* followed by the backoff when another attempt remains.
C35_RateLimitClassification ==
    [][\A resp \in {r \in RateResponses : r.kind = "http"} :
          RequestAttempt(resp, 0, sleep_seconds(resp.reset, clock)) =>
              LET signal == /\ resp.code = 403
                            /\ resp.remaining = "0"
                            /\ resp.reset \notin {NoneVal, ""}
                  slept == clock' - clock
              IN  IF resp.code = 404
                  THEN slept = 0 /\ rqpc' = "returned"
                  ELSE IF signal
                  THEN /\ slept = (IF resp.reset \in DOMAIN ResetSeconds
                                   THEN Max(1, ResetSeconds[resp.reset] - clock + 1)
                                   ELSE 60)
                       /\ failSeen' = failSeen
                       /\ rlSeen' = rlSeen + 1
                       /\ last_error' = last_error
                  ELSE /\ slept = (IF attempt < retry_limit
                                   THEN (IF 2 ^ (attempt - 1) < 60 THEN 2 ^ (attempt - 1) ELSE 60)
                                   ELSE 0)
                       /\ failSeen' = failSeen + 1
                       /\ rlSeen' = rlSeen
                       /\ last_error' = "HTTP " \o ToString(resp.code) \o " for " \o Url]_vars

\* The call has taken a signal whose reset header is no integer, slept 60
\* seconds for it, then a signal whose reset time had passed, and slept one
\* second.
C35_Witness ==
    /\ rqpc = "loop"
    /\ rlSeen = 2
    /\ failSeen = 0
    /\ attempt = 3
    /\ sleptAfter = 1
    /\ clock \in {61, 62, 63}

\* The request for page p of topic t raised.
PageRaised(t, p) == SearchAnswer(dc_in.up, t, p, dc_in.cfg.per_page).raised

\* Page p of topic t is short or holds nothing to use.
ShortOrEmpty(t, p) ==
    \/ \A i \in 1..Len(PageItems(t, p)) : ~Usable(PageItems(t, p)[i])
    \/ Len(PageItems(t, p)) < dc_in.cfg.per_page

\* C36: with max_pages_per_topic = N > 0 discovery makes at most N search
\* requests for a topic, whatever the answers are; with N = 0 the requests
\* for a topic go on, page after page, until a page is short or empty (or a
\* request raises, which ends discovery as a whole).
C36_PageCap ==
    dc_out.called =>
        \A n \in 1..Len(dc_in.cfg.topics) :
            LET t == dc_in.cfg.topics[n]
                asked == PagesAsked(t)
                cap == dc_in.cfg.max_pages_per_topic
            IN  /\ cap > 0 => Len(asked) <= cap
                /\ (cap = 0 /\ Len(asked) >= 1) =>
                      /\ PageRaised(t, Len(asked)) \/ ShortOrEmpty(t, Len(asked))
                      /\ \A p \in 1..(Len(asked) - 1) :
                            ~PageRaised(t, p) /\ ~ShortOrEmpty(t, p)

\* Without a cap a topic with three full pages has been asked for a fourth.
C36_Witness ==
    /\ dc_out.called
    /\ dc_in.cfg.max_pages_per_topic = 0
    /\ dc_in.cfg.per_page = 2
    /\ Len(PagesAsked(dc_in.cfg.topics[1])) = MaxPages + 1

\* C37: when a run has returned, an identifier that its discovery did not
\* return, whose row carries no error and which is not excluded, has an
\* entry in the output, the payload of its row when no override names it;
\* entries do not leave the output because discovery no longer returns
\* them, and written can be larger than discovered.
C37_UndiscoveredKept ==
    Returned =>
        \A r \in Repos :
            (/\ ~DictHas(discovered, r)
             /\ HasRow(store, r)
             /\ ~HasError(read_repo(store, r))
             /\ r \notin overridesFile.excluded) =>
                /\ InOutput(r)
                /\ ~Overridden(r) =>
                      \E i \in 1..Len(output.entries) :
                          output.entries[i] = read_repo(store, r).payload

\* The second run has returned without having discovered an identifier that
\* the first had fetched: it has written more entries than it discovered.
C37_Witness ==
    /\ Returned
    /\ runs = 2
    /\ \E r \in Repos :
          /\ ~DictHas(discovered, r)
          /\ HasRow(store, r)
          /\ ~HasError(read_repo(store, r))
          /\ InOutput(r)
    /\ runlog.returned.written > runlog.returned.discovered

\* ---- run_once from the seeding to the sorted entries, over drawn payloads

\* Payloads of cache records and entries of live fetches: two identifiers of
\* the search, a third that only a payload carries (a repository that was
\* renamed), and payloads whose "repo" is empty, None or missing.
OutputEntries ==
    {[name |-> "Nord", repo |-> RepoA, stars |-> 2],
     [name |-> "nord", repo |-> RepoB, stars |-> 3],
     [name |-> "moved", repo |-> "acme/renamed.nvim", stars |-> 1],
     [name |-> "blank", repo |-> "", stars |-> 1],
     [name |-> "none", repo |-> NoneVal, stars |-> 1],
     [stars |-> 1]}

\* Overrides as load_overrides returns them.
OutputOverrides ==
    {[repo |-> RepoA, stars |-> 9],
     [repo |-> "acme/renamed.nvim", name |-> "Extra"],
     [repo |-> "", stars |-> 9],
     [stars |-> 9]}

\* Longest list of cached payloads and of overrides.
MaxOutput == 2

\* What the refresh loop sets: for the discovered keys, in order, the
\* payload of the record or the entry of the live fetch, whose "repo" is the
\* full_name of the response; a key whose fetch failed sets nothing.
RefreshedSets ==
    {<<>>}
    \cup {<<[key |-> k, entry |-> e]>> : k \in Repos, e \in OutputEntries}
    \cup {<<[key |-> RepoA, entry |-> e1], [key |-> RepoB, entry |-> e2]>> :
             e1 \in OutputEntries, e2 \in OutputEntries}

OutputInputs ==
    {[fn |-> "run_once", payloads |-> ps, refreshed |-> rs, overrides |-> os,
      excluded |-> ex] :
        ps \in SeqsUpTo(OutputEntries, MaxOutput),
        rs \in RefreshedSets,
        os \in SeqsUpTo(OutputOverrides, MaxOutput),
        ex \in SUBSET Repos}

\* "entries_by_repo[repo] = cached['payload']" and "entries_by_repo[repo] =
\* entry" of the refresh loop, under the discovered key.
RECURSIVE SetRefreshed(_, _)
SetRefreshed(d, refreshed) ==
    IF Len(refreshed) = 0 THEN d
    ELSE SetRefreshed(DictSet(d, Head(refreshed).key, Head(refreshed).entry),
                      Tail(refreshed))

InitOutput ==
    /\ ReqRest
    /\ SrRest
    /\ DcRest
    /\ RunRest
    /\ fn_in \in OutputInputs
    /\ fn_out = NotCalled

\* The entries that run_once writes: seeding, refresh loop, overrides, sort.
MergeAndSort ==
    /\ ~fn_out.called
    /\ fn_in.fn = "run_once"
    /\ LET by_key == SetRefreshed(SeedEntries(<<>>, fn_in.payloads), fn_in.refreshed)
           merged == apply_overrides(DictValues(by_key), fn_in.overrides,
                                     fn_in.excluded)
       IN  fn_out' = [called |-> TRUE,
                      values |-> DictValues(by_key),
                      result |-> _sort_entries(merged, RunConfig)]
    /\ UNCHANGED <<fn_in, reqVars, srVars, dcVars, runVars>>

NextOutput == MergeAndSort

SpecOutput == InitOutput /\ [][NextOutput]_vars

\* C38: the entries that run_once writes all carry a non-empty string under
\* "repo", and no two of them carry the same one, whatever the cached
\* payloads, the entries set under the discovered keys (whose "repo" may be
\* another identifier than the key) and the overrides are.
C38_OneEntryPerRepo ==
    FnCalled("run_once") =>
        LET written == fn_out.result
        IN  /\ \A i \in 1..Len(written) :
                  /\ "repo" \in DOMAIN written[i]
                  /\ written[i].repo \in STRING
                  /\ written[i].repo \notin {"", NoneVal}
            /\ \A i, j \in 1..Len(written) :
                  written[i].repo = written[j].repo => i = j

\* The working set holds two entries with the same "repo", one of them under
\* a key that is another identifier, and one entry for it is written.
C38_Witness ==
    /\ FnCalled("run_once")
    /\ \E i, j \in 1..Len(fn_out.values) :
          /\ i # j
          /\ HasRepoKey(fn_out.values[i])
          /\ fn_out.values[i] = fn_out.values[j]
          /\ \E k \in 1..Len(fn_in.refreshed) :
                /\ fn_in.refreshed[k].entry = fn_out.values[i]
                /\ fn_in.refreshed[k].key # fn_out.values[i].repo
          /\ \E w \in 1..Len(fn_out.result) : fn_out.result[w].repo = fn_out.values[i].repo
    /\ \E w \in 1..Len(fn_out.result) : fn_out.result[w] = [repo |-> "acme/renamed.nvim", name |-> "Extra"]

\* ---- run_loop: runs of one process in continuous-loop mode

\* DEFAULT_CONFIG.scan_interval_seconds
scan_interval_seconds == 1800

\* One iteration of "while True" in run_loop: run_once is called at once on
\* the first iteration and after time.sleep(scan_interval_seconds) on the
\* later ones. The loop has no except clause and neither has main: an
\* exception of run_once leaves run_loop and ends the process, so that an
\* iteration follows only a run that returned.
run_loop ==
    /\ runs = 0 \/ lastEnd = "returned"
    /\ StartRun(IF runs = 0 THEN 0 ELSE scan_interval_seconds)

\* The steps of the process in continuous-loop mode, and the hosting side
\* changing its answers during the sleep.
NextLoop ==
    \/ run_loop
    \/ RefreshStep
    \/ \E cls \in UpsertErrors : UpsertFails(cls)
    \/ \E file \in OverrideFiles : FinishRun(file)
    \/ OverridesInvalid
    \/ \E file \in OverrideFiles, which \in {"output", "manifest"} : WriteFails(file, which)
    \/ UpstreamChange

SpecLoop == Init /\ [][NextLoop]_vars

\* The runs of the loop are sequential: a run starts only when the one
\* before it has ended and closed the store it opened, and it starts
\* scan_interval_seconds after that end.
LoopSequential ==
    [][runs' = runs + 1 =>
          /\ pc = "idle"
          /\ runs >= 1 =>
                /\ lastEnd # "running"
                /\ runlog.opens = 1
                /\ runlog.closes = 1
                /\ now' = now + scan_interval_seconds]_vars

\* C39: in continuous-loop mode, when a run has ended, by returning or by
\* raising, the loop goes on to its next iteration: the start of another run
\* is the step the process has next (as long as fewer than MaxRuns have
\* started).
C39_LoopKeepsRunning ==
    (pc = "idle" /\ runs >= 1 /\ runs < MaxRuns) => ENABLED run_loop

(***************************************************************************)
(* publish.py: publish_artifacts over consecutive calls                    *)
(***************************************************************************)

\* Largest number of calls of publish_artifacts.
MaxPublish == 4

\* The git command that fails in a call, if any.
GitFaults == {"none", "status", "add", "commit", "push"}

\* The repository before the first call: the artifacts are as committed or
\* were just written with other bytes, and nothing is ahead of the remote.
\* In fn_out, dirty says that the artifacts
\* in the working tree differ from the index, staged that the index differs
\* from HEAD, ahead counts the commits of the branch the remote lacks;
\* steps and result are the git commands run and the outcome of the latest
\* call.
InitPublish ==
    /\ ReqRest
    /\ SrRest
    /\ DcRest
    /\ RunRest
    /\ fn_in = [fn |-> "publish_artifacts", calls |-> 0, fails |-> "none"]
    /\ fn_out \in {[called |-> FALSE, dirty |-> d, staged |-> FALSE, ahead |-> 0,
                   steps |-> <<>>, result |-> NoneVal] : d \in BOOLEAN}

\* _has_changes: "git status --porcelain -- paths" prints a line for a path
\* that differs between working tree and index or between index and HEAD.
\* Commits that the remote lacks are not listed.
_has_changes(git) == git.dirty \/ git.staged

\* publish_artifacts: the repository after the call, the commands run and
\* the value returned or PublishError; fails names the command whose exit
\* status is not 0 in this call.
publish_artifacts(git, fails) ==
    IF fails = "status"
    THEN [git EXCEPT !.steps = <<"status">>, !.result = "PublishError"]
    ELSE IF ~_has_changes(git)
    THEN [git EXCEPT !.steps = <<"status">>, !.result = "False"]
    ELSE IF fails = "add"
    THEN [git EXCEPT !.steps = <<"status", "add">>, !.result = "PublishError"]
    ELSE LET added == [git EXCEPT !.staged = TRUE, !.dirty = FALSE]
         IN  IF fails = "commit"
             THEN [added EXCEPT !.steps = <<"status", "add", "commit">>,
                                !.result = "PublishError"]
             ELSE LET committed == [added EXCEPT !.staged = FALSE, !.ahead = @ + 1]
                  IN  IF fails = "push"
                      THEN [committed EXCEPT !.steps = <<"status", "add", "commit", "push">>,
                                             !.result = "PublishError"]
                      ELSE [committed EXCEPT !.ahead = 0,
                                             !.steps = <<"status", "add", "commit", "push">>,
                                             !.result = "True"]

\* main in mode run-once-publish, after run_once: one call of
\* publish_artifacts.
CallPublish(fails) ==
    /\ fn_in.fn = "publish_artifacts"
    /\ fn_in.calls < MaxPublish
    /\ fn_in' = [fn_in EXCEPT !.calls = @ + 1, !.fails = fails]
    /\ fn_out' = [publish_artifacts(fn_out, fails) EXCEPT !.called = TRUE]
    /\ UNCHANGED <<reqVars, srVars, dcVars, runVars>>

\* run_once of a later invocation writes artifacts with other bytes.
ArtifactsChange ==
    /\ fn_in.fn = "publish_artifacts"
    /\ fn_out.called
    /\ ~fn_out.dirty
    /\ fn_in.calls < MaxPublish
    /\ fn_out' = [fn_out EXCEPT !.dirty = TRUE, !.called = FALSE]
    /\ UNCHANGED <<fn_in, reqVars, srVars, dcVars, runVars>>

NextPublish ==
    \/ \E fails \in GitFaults : CallPublish(fails)
    \/ ArtifactsChange

SpecPublish == InitPublish /\ [][NextPublish]_vars

\* The commands of a call are run in the order status, add, commit, push up
\* to the first that fails; the call raises PublishError exactly when one
\* failed, and a commit is made only after add succeeded.
PublishStepsInOrder ==
    fn_out.called =>
        LET order == <<"status", "add", "commit", "push">>
            n == Len(fn_out.steps)
        IN  /\ n >= 1
            /\ fn_out.steps = SubSeq(order, 1, n)
            /\ fn_out.result = "PublishError" <=> fn_in.fails = fn_out.steps[n]
            /\ fn_out.result = "True" => n = 4
            /\ fn_out.result = "False" => n = 1

\* C40: no commit of publish_artifacts stays unpushed: after a call in which
\* no git command failed (the remote works), the remote has every commit of
\* the branch, also when an earlier call committed and failed to push and
\* the artifacts have not changed since.
C40_CommitEventuallyPushed ==
    (fn_in.fn = "publish_artifacts" /\ fn_out.called /\ fn_in.fails = "none") =>
        fn_out.ahead = 0

====
